---- MODULE Spec2Model ----
(***************************************************************************)
(* Proof-of-Place validation: the scoring engine (ScoringEngine.validate), *)
(* its four analyzers (TextAnalyzer, ImageAnalyzer, TimeAnalyzer,          *)
(* SpamAnalyzer) and the process-wide indices the two stateful analyzers   *)
(* keep (imageHashes, textHashes, submissionHistory).                      *)
(*                                                                         *)
(* Conventions                                                             *)
(*  - A JavaScript string is a sequence of one-character strings.          *)
(*  - A signal (a score or a risk in [0,1]) is an integer number of        *)
(*    thousandths: 0.5 is 500, the duplicate-image score 0.15 is 150.      *)
(*    Every number the analyzers produce is a whole number of thousandths, *)
(*    so the decimal arithmetic of the source is exact here; the binary    *)
(*    floating point error of the source (at most a few 1e-16) is not      *)
(*    modelled.                                                            *)
(*  - A point in time is an integer number of minutes since the epoch, in  *)
(*    local time; a year has DAYS_PER_YEAR days (no leap years).           *)
(***************************************************************************)
EXTENDS Integers, Sequences, FiniteSets, TLC

VARIABLES
    imageHashes,        \* ImageAnalyzer.imageHashes: hash -> list of location keys
    textHashes,         \* SpamAnalyzer.textHashes: text hash -> submission count
    submissionHistory,  \* SpamAnalyzer.submissionHistory: userId -> list of records
    now,                \* the wall clock read by `new Date()`
    call,               \* the last call made and what it returned
    hist,               \* observations of the run so far (history variables)
    pending             \* the validate calls in flight, suspended at an await

vars == <<imageHashes, textHashes, submissionHistory, now, call, hist, pending>>

(***************************************************************************)
(* Strings                                                                 *)
(***************************************************************************)
UpperCase == <<"A","B","C","D","E","F","G","H","I","J","K","L","M",
               "N","O","P","Q","R","S","T","U","V","W","X","Y","Z">>

LowerCase == <<"a","b","c","d","e","f","g","h","i","j","k","l","m",
               "n","o","p","q","r","s","t","u","v","w","x","y","z">>

Digits == {"0","1","2","3","4","5","6","7","8","9"}

UpperSet == {UpperCase[i] : i \in 1..Len(UpperCase)}

LowerSet == {LowerCase[i] : i \in 1..Len(LowerCase)}

\* the regular expression class \w
WordChars == UpperSet \cup LowerSet \cup Digits \cup {"_"}

IsWordChar(c) == c \in WordChars

\* the regular expression class \s (the texts here hold no other white space)
IsSpace(c) == c = " "

ToLowerChar(c) ==
    IF c \in UpperSet
    THEN LowerCase[CHOOSE i \in 1..Len(UpperCase) : UpperCase[i] = c]
    ELSE c

\* String.prototype.toLowerCase
toLowerCase(s) == SubSeq([i \in 1..Len(s) |-> ToLowerChar(s[i])], 1, Len(s))

\* String.prototype.includes
includes(s, sub) ==
    \E i \in 1..(Len(s) - Len(sub) + 1) : \A k \in 1..Len(sub) : s[i + k - 1] = sub[k]

\* String.prototype.startsWith at position i (1-based)
StartsAt(s, i, sub) ==
    /\ i + Len(sub) - 1 <= Len(s)
    /\ \A k \in 1..Len(sub) : s[i + k - 1] = sub[k]

\* s without its leading white space
trimStart(s) ==
    IF \A i \in 1..Len(s) : IsSpace(s[i]) THEN <<>>
    ELSE SubSeq(s, CHOOSE i \in 1..Len(s) :
                      ~IsSpace(s[i]) /\ \A j \in 1..(i - 1) : IsSpace(s[j]),
                Len(s))

\* s without its trailing white space
trimEnd(s) ==
    IF \A i \in 1..Len(s) : IsSpace(s[i]) THEN <<>>
    ELSE SubSeq(s, 1, CHOOSE i \in 1..Len(s) :
                         ~IsSpace(s[i]) /\ \A j \in (i + 1)..Len(s) : IsSpace(s[j]))

\* String.prototype.trim
trim(s) == trimEnd(trimStart(s))

\* s.replace(/\s+/g, ' '): of every run of white space the first character
\* stays, as a blank
collapseWhitespace(s) ==
    LET marked == [i \in 1..Len(s) |->
                     [c |-> IF IsSpace(s[i]) THEN " " ELSE s[i],
                      keep |-> ~IsSpace(s[i]) \/ i = 1 \/ ~IsSpace(s[i - 1])]]
        kept == SelectSeq(marked, LAMBDA m : m.keep)
    IN [k \in 1..Len(kept) |-> kept[k].c]

\* s.replace(/[^\w\s]/g, '')
stripPunctuation(s) == SelectSeq(s, LAMBDA c : IsWordChar(c) \/ IsSpace(c))

\* s.substring(0, n)
substring(s, n) == SubSeq(s, 1, IF n < Len(s) THEN n ELSE Len(s))

\* the index of the first white space of s, 0 when there is none
FirstSpace(s) ==
    IF \E i \in 1..Len(s) : IsSpace(s[i])
    THEN CHOOSE i \in 1..Len(s) :
            IsSpace(s[i]) /\ \A j \in 1..(i - 1) : ~IsSpace(s[j])
    ELSE 0

\* s.split(/\s+/): a leading or trailing run of white space gives an empty
\* first or last element, as in JavaScript
RECURSIVE splitWhitespace(_)
splitWhitespace(s) ==
    LET i == FirstSpace(s) IN
    IF i = 0 THEN <<s>>
    ELSE <<SubSeq(s, 1, i - 1)>>
            \o splitWhitespace(trimStart(SubSeq(s, i, Len(s))))

\* s.split(' ')[0]
firstSplitBySpace(s) ==
    LET i == FirstSpace(s) IN IF i = 0 THEN s ELSE SubSeq(s, 1, i - 1)

\* words.slice(i, i + n).join(' '), i 0-based: a phrase is kept as the
\* sequence of its words (join(' ') is one-to-one on words without spaces)
slice(words, i, n) == SubSeq(words, i + 1, i + n)

\* (s.match(/#\w+/g) || []).length: '#' is no word character, so matches
\* never overlap and each '#' followed by a word character starts one
countHashtags(s) ==
    Cardinality({i \in 1..(Len(s) - 1) : s[i] = "#" /\ IsWordChar(s[i + 1])})

HttpPrefix == <<"h","t","t","p",":","/","/">>

HttpsPrefix == <<"h","t","t","p","s",":","/","/">>

\* a match of /https?:\/\/\S+/ can start at i: the prefix, then at least one
\* character that is no white space
UrlStartsAt(s, i) ==
    \/ StartsAt(s, i, HttpsPrefix) /\ i + Len(HttpsPrefix) <= Len(s)
          /\ ~IsSpace(s[i + Len(HttpsPrefix)])
    \/ StartsAt(s, i, HttpPrefix) /\ i + Len(HttpPrefix) <= Len(s)
          /\ ~IsSpace(s[i + Len(HttpPrefix)])

\* (s.match(/https?:\/\/\S+/g) || []).length: a match takes the rest of the
\* run of non-space characters it starts in, so a run holds at most one
\* match, which starts at the first position of the run where one can start
countUrls(s) ==
    Cardinality({i \in 1..Len(s) :
        /\ UrlStartsAt(s, i)
        /\ ~\E j \in 1..(i - 1) :
               UrlStartsAt(s, j) /\ \A k \in j..i : ~IsSpace(s[k])})

\* the length of the run of word characters of s that starts at i
RECURSIVE wordRun(_, _)
wordRun(s, i) ==
    IF i > Len(s) \/ ~IsWordChar(s[i]) THEN 0 ELSE 1 + wordRun(s, i + 1)

\* the maximal runs of word characters of s, as a set
WordRuns(s) ==
    {SubSeq(s, i, i + wordRun(s, i) - 1) : i \in
        {j \in 1..Len(s) : IsWordChar(s[j]) /\ (j = 1 \/ ~IsWordChar(s[j - 1]))}}

\* s.match(/\b[A-Z]{2,}\b/g) || [], as a set: the runs of word characters
\* that are two or more capital letters and nothing else
matchAbbreviations(s) ==
    {w \in WordRuns(s) : Len(w) >= 2 /\ \A k \in 1..Len(w) : w[k] \in UpperSet}

\* the index of the first '"' of s at or after i, 0 when there is none
NextQuote(s, i) ==
    IF \E k \in i..Len(s) : s[k] = "\""
    THEN CHOOSE k \in i..Len(s) :
            s[k] = "\"" /\ \A j \in i..(k - 1) : s[j] # "\""
    ELSE 0

\* the contents of the matches of /"([^"]+)"/g in s from position i on
RECURSIVE quotedFrom(_, _)
quotedFrom(s, i) ==
    LET a == NextQuote(s, i)
        b == IF a = 0 THEN 0 ELSE NextQuote(s, a + 1)
    IN IF a = 0 \/ b = 0 THEN {}
       ELSE IF b = a + 1 THEN quotedFrom(s, b)
       ELSE {SubSeq(s, a + 1, b - 1)} \cup quotedFrom(s, b + 1)

matchQuoted(s) == quotedFrom(s, 1)

Min(a, b) == IF a < b THEN a ELSE b

Max(a, b) == IF a > b THEN a ELSE b

\* Map.get(k) || d
MapGet(m, k, d) == IF k \in DOMAIN m THEN m[k] ELSE d

\* Map.set(k, v)
MapSet(m, k, v) == [x \in DOMAIN m \cup {k} |-> IF x = k THEN v ELSE m[x]]

\* new Map()
EmptyMap == [x \in {} |-> 0]

\* Array.prototype.includes
arrayIncludes(a, x) == \E i \in 1..Len(a) : a[i] = x

(***************************************************************************)
(* VALIDATION_CONSTANTS (lib/constants), in thousandths where a score      *)
(***************************************************************************)
SCORE_MIN == 0

SCORE_MAX == 1000

PASS_THRESHOLD == 700

LOW_CONFIDENCE_THRESHOLD == 400

TEXT_NO_MATCHES_SCORE == 100

TEXT_EXACT_POI_MATCH_SCORE == 500

TEXT_POI_WORD_MATCH_BASE == 100

TEXT_POI_WORD_MATCH_MAX == 300

TEXT_NICKNAME_MATCH_SCORE == 300

TEXT_CITY_MENTION_SCORE == 200

TEXT_ENTITY_MATCH_BASE == 50

TEXT_ENTITY_MATCH_MAX == 200

TEXT_COORDINATES_PENALTY == 700

MIN_POI_WORD_LENGTH == 3

TEXT_HASH_LENGTH == 100

SPAM_SHORT_TEXT_LENGTH == 10

SPAM_MAX_HASHTAGS == 10

SPAM_MAX_URLS == 3

\* SPAM_BURST_WINDOW_MS, in minutes
SPAM_BURST_WINDOW_MIN == 5

SPAM_BURST_HIGH_THRESHOLD == 5

SPAM_BURST_MEDIUM_THRESHOLD == 3

MAX_SUBMISSION_HISTORY == 100

IMAGE_HASH_PREFIX_LENGTH == 100

IMAGE_DUPLICATE_PENALTY == 300

IMAGE_EXIF_DISTANCE_CLOSE_M == 100

IMAGE_EXIF_DISTANCE_NEAR_M == 1000

IMAGE_EXIF_DISTANCE_ACCEPTABLE_M == 5000

\* one whole, in thousandths: x * f of the source is (x * f) \div ONE here
ONE == SCORE_MAX

(***************************************************************************)
(* TextAnalyzer                                                            *)
(***************************************************************************)
venueKeywords == {
    <<"t","h","e","a","t","e","r">>,
    <<"t","h","e","a","t","r","e">>,
    <<"s","t","a","d","i","u","m">>,
    <<"a","r","e","n","a">>,
    <<"h","a","l","l">>,
    <<"c","e","n","t","e","r">>,
    <<"c","e","n","t","r","e">>,
    <<"v","e","n","u","e">>,
    <<"c","l","u","b">>,
    <<"b","a","r">>,
    <<"r","e","s","t","a","u","r","a","n","t">>,
    <<"c","a","f","e">>,
    <<"m","u","s","e","u","m">>,
    <<"g","a","l","l","e","r","y">>,
    <<"p","a","r","k">>,
    <<"p","l","a","z","a">>,
    <<"s","q","u","a","r","e">>,
    <<"b","r","i","d","g","e">>,
    <<"t","o","w","e","r">>,
    <<"b","u","i","l","d","i","n","g">> }

cityKeywords == {
    <<"n","e","w"," ","y","o","r","k">>,
    <<"n","y","c">>,
    <<"l","o","s"," ","a","n","g","e","l","e","s">>,
    <<"l","a">>,
    <<"c","h","i","c","a","g","o">>,
    <<"s","a","n"," ","f","r","a","n","c","i","s","c","o">> }

\* a faulty variant of getNicknames: the nickname map is empty
getNicknames_none(poiName) == {}

\* TextAnalyzer.getNicknames: nicknameMap[poiName.toLowerCase()] || []
getNicknames(poiName) ==
    LET lowerPoi == toLowerCase(poiName) IN
    IF lowerPoi = <<"m","a","d","i","s","o","n"," ","s","q","u","a","r","e"," ","g","a","r","d","e","n">>
    THEN {<<"m","s","g">>, <<"t","h","e"," ","g","a","r","d","e","n">>}
    ELSE IF lowerPoi = <<"s","t","a","p","l","e","s"," ","c","e","n","t","e","r">>
    THEN {<<"s","t","a","p","l","e","s">>}
    ELSE IF lowerPoi = <<"y","a","n","k","e","e"," ","s","t","a","d","i","u","m">>
    THEN {<<"y","a","n","k","e","e">>, <<"y","a","n","k","e","e","s">>}
    ELSE IF lowerPoi = <<"d","o","d","g","e","r"," ","s","t","a","d","i","u","m">>
    THEN {<<"d","o","d","g","e","r">>, <<"d","o","d","g","e","r","s">>}
    ELSE IF lowerPoi = <<"w","e","m","b","l","e","y"," ","s","t","a","d","i","u","m">>
    THEN {<<"w","e","m","b","l","e","y">>}
    ELSE IF lowerPoi = <<"o","l","y","m","p","i","c"," ","s","t","a","d","i","u","m">>
    THEN {<<"o","l","y","m","p","i","c">>}
    ELSE {}

\* TextAnalyzer.extractEntities: the result is a Set, so a set here.  The
\* caller passes the lower-cased text, so the capital-letter pattern of the
\* abbreviations is matched against lower-case text.
extractEntities(text) ==
    {k \in venueKeywords : includes(text, k)}
        \cup {toLowerCase(a) : a \in matchAbbreviations(text)}
        \cup {toLowerCase(q) : q \in matchQuoted(text)}

\* TextAnalyzer.findLocationMatches: a match `tag:value` is the pair
\* <<tag, value>>; the result is a Set
findLocationMatches(text, location, entities) ==
    IF location.type = "poi"
    THEN LET poiName == toLowerCase(location.name)
             city == toLowerCase(location.city)
             poiWords == splitWhitespace(poiName)
         IN (IF includes(text, poiName) THEN {<<"exact_poi", poiName>>} ELSE {})
              \cup {<<"poi_word", poiWords[i]>> : i \in
                      {j \in 1..Len(poiWords) :
                          /\ Len(poiWords[j]) > MIN_POI_WORD_LENGTH
                          /\ includes(text, poiWords[j])}}
              \cup (IF includes(text, city) THEN {<<"city", city>>} ELSE {})
              \cup {<<"nickname", n>> : n \in
                      {k \in getNicknames(poiName) : includes(text, k)}}
              \cup {<<"entity", e>> : e \in
                      {k \in entities :
                          \/ includes(poiName, k)
                          \/ includes(k, firstSplitBySpace(poiName))}}
    ELSE {<<"city_mention", c>> : c \in {k \in cityKeywords : includes(text, k)}}

\* matches.filter(m => m.startsWith(tag + ':')).length
countTag(matches, tag) == Cardinality({m \in matches : m[1] = tag})

\* a faulty variant of calculateScore: the sum of the contributions is
\* returned without the final clamp to [SCORE_MIN, SCORE_MAX]
calculateScore_unclamped(matches, location) ==
    IF matches = {} THEN TEXT_NO_MATCHES_SCORE
    ELSE LET exact == IF countTag(matches, "exact_poi") > 0
                      THEN TEXT_EXACT_POI_MATCH_SCORE ELSE 0
             poiWordScore == countTag(matches, "poi_word") * TEXT_POI_WORD_MATCH_BASE
             nick == IF countTag(matches, "nickname") > 0
                     THEN TEXT_NICKNAME_MATCH_SCORE ELSE 0
             cityS == IF countTag(matches, "city") > 0
                      THEN TEXT_CITY_MENTION_SCORE ELSE 0
             entityScore == countTag(matches, "entity") * TEXT_ENTITY_MATCH_BASE
             sum == exact + Min(TEXT_POI_WORD_MATCH_MAX, poiWordScore) + nick
                      + cityS + Min(TEXT_ENTITY_MATCH_MAX, entityScore)
             score == IF location.type = "coordinates"
                      THEN (sum * TEXT_COORDINATES_PENALTY) \div ONE
                      ELSE sum
         IN score

\* a faulty variant of calculateScore: a text without matches gets the
\* neutral score 0.5 instead of TEXT_NO_MATCHES_SCORE
calculateScore_neutralFloor(matches, location) ==
    IF matches = {} THEN SCORE_MAX \div 2
    ELSE LET exact == IF countTag(matches, "exact_poi") > 0
                      THEN TEXT_EXACT_POI_MATCH_SCORE ELSE 0
             poiWordScore == countTag(matches, "poi_word") * TEXT_POI_WORD_MATCH_BASE
             nick == IF countTag(matches, "nickname") > 0
                     THEN TEXT_NICKNAME_MATCH_SCORE ELSE 0
             cityS == IF countTag(matches, "city") > 0
                      THEN TEXT_CITY_MENTION_SCORE ELSE 0
             entityScore == countTag(matches, "entity") * TEXT_ENTITY_MATCH_BASE
             sum == exact + Min(TEXT_POI_WORD_MATCH_MAX, poiWordScore) + nick
                      + cityS + Min(TEXT_ENTITY_MATCH_MAX, entityScore)
             score == IF location.type = "coordinates"
                      THEN (sum * TEXT_COORDINATES_PENALTY) \div ONE
                      ELSE sum
         IN Min(SCORE_MAX, Max(SCORE_MIN, score))

\* TextAnalyzer.calculateScore
calculateScore(matches, location) ==
    IF matches = {} THEN TEXT_NO_MATCHES_SCORE
    ELSE LET exact == IF countTag(matches, "exact_poi") > 0
                      THEN TEXT_EXACT_POI_MATCH_SCORE ELSE 0
             poiWordScore == countTag(matches, "poi_word") * TEXT_POI_WORD_MATCH_BASE
             nick == IF countTag(matches, "nickname") > 0
                     THEN TEXT_NICKNAME_MATCH_SCORE ELSE 0
             cityS == IF countTag(matches, "city") > 0
                      THEN TEXT_CITY_MENTION_SCORE ELSE 0
             entityScore == countTag(matches, "entity") * TEXT_ENTITY_MATCH_BASE
             sum == exact + Min(TEXT_POI_WORD_MATCH_MAX, poiWordScore) + nick
                      + cityS + Min(TEXT_ENTITY_MATCH_MAX, entityScore)
             score == IF location.type = "coordinates"
                      THEN (sum * TEXT_COORDINATES_PENALTY) \div ONE
                      ELSE sum
         IN Min(SCORE_MAX, Max(SCORE_MIN, score))

\* TextAnalyzer.analyze
TextAnalyzer_analyze(text, location) ==
    LET normalizedText == toLowerCase(text)
        entities == extractEntities(normalizedText)
        matches == findLocationMatches(normalizedText, location, entities)
    IN [score |-> calculateScore(matches, location),
        entities |-> entities,
        matches |-> matches]

(***************************************************************************)
(* TimeAnalyzer                                                            *)
(***************************************************************************)
\* `timestamp?: string` left out (undefined) or empty: !timestamp holds
NoTimestamp == -1

MINUTES_PER_HOUR == 60

HOURS_PER_DAY == 24

DAYS_PER_YEAR == 365

MINUTES_PER_DAY == MINUTES_PER_HOUR * HOURS_PER_DAY

\* Date.prototype.getHours
getHours(t) == (t \div MINUTES_PER_HOUR) % HOURS_PER_DAY

\* new Date(now.getFullYear() - 1, now.getMonth(), now.getDate()): the
\* midnight that starts the same calendar day one year earlier
oneYearAgo(t) == (t - (t % MINUTES_PER_DAY)) - DAYS_PER_YEAR * MINUTES_PER_DAY

\* TimeAnalyzer.inferVenueType
inferVenueType(location) ==
    LET name == IF location.type = "poi"
                THEN toLowerCase(location.name)
                ELSE <<"u","n","k","n","o","w","n">>
    IN IF includes(name, <<"s","t","a","d","i","u","m">>)
          \/ includes(name, <<"a","r","e","n","a">>)
       THEN "sports_venue"
       ELSE IF includes(name, <<"t","h","e","a","t","e","r">>)
               \/ includes(name, <<"t","h","e","a","t","r","e">>)
               \/ includes(name, <<"h","a","l","l">>)
       THEN "performance_venue"
       ELSE IF includes(name, <<"r","e","s","t","a","u","r","a","n","t">>)
               \/ includes(name, <<"c","a","f","e">>)
               \/ includes(name, <<"b","a","r">>)
       THEN "dining"
       ELSE IF includes(name, <<"p","a","r","k">>)
               \/ includes(name, <<"p","l","a","z","a">>)
       THEN "outdoor"
       ELSE IF includes(name, <<"m","u","s","e","u","m">>)
               \/ includes(name, <<"g","a","l","l","e","r","y">>)
       THEN "cultural"
       ELSE "general"

\* a faulty variant of checkTimePlausibility: the matinee band of a
\* performance venue starts at noon
checkTimePlausibility_matineeFromNoon(hour, venueType) ==
    IF venueType = "sports_venue"
    THEN IF hour >= 19 /\ hour <= 23 THEN 900
         ELSE IF hour >= 12 /\ hour <= 18 THEN 700
         ELSE IF hour >= 0 /\ hour <= 6 THEN 200
         ELSE 500
    ELSE IF venueType = "performance_venue"
    THEN IF hour >= 19 /\ hour <= 23 THEN 900
         ELSE IF hour >= 12 /\ hour <= 18 THEN 600
         ELSE IF hour >= 0 /\ hour <= 6 THEN 200
         ELSE 400
    ELSE IF venueType = "dining"
    THEN IF hour >= 11 /\ hour <= 22 THEN 900
         ELSE IF hour >= 7 /\ hour <= 10 THEN 700
         ELSE IF hour >= 23 \/ hour <= 6 THEN 300
         ELSE 500
    ELSE IF venueType = "outdoor"
    THEN IF hour >= 6 /\ hour <= 21 THEN 900
         ELSE IF hour >= 22 \/ hour <= 5 THEN 400
         ELSE 700
    ELSE IF venueType = "cultural"
    THEN IF hour >= 10 /\ hour <= 18 THEN 900
         ELSE IF hour >= 19 \/ hour <= 9 THEN 400
         ELSE 600
    ELSE IF hour >= 8 /\ hour <= 22 THEN 800
         ELSE 500

\* TimeAnalyzer.checkTimePlausibility
checkTimePlausibility(hour, venueType) ==
    IF venueType = "sports_venue"
    THEN IF hour >= 19 /\ hour <= 23 THEN 900
         ELSE IF hour >= 12 /\ hour <= 18 THEN 700
         ELSE IF hour >= 0 /\ hour <= 6 THEN 200
         ELSE 500
    ELSE IF venueType = "performance_venue"
    THEN IF hour >= 19 /\ hour <= 23 THEN 900
         ELSE IF hour >= 14 /\ hour <= 18 THEN 600
         ELSE IF hour >= 0 /\ hour <= 6 THEN 200
         ELSE 400
    ELSE IF venueType = "dining"
    THEN IF hour >= 11 /\ hour <= 22 THEN 900
         ELSE IF hour >= 7 /\ hour <= 10 THEN 700
         ELSE IF hour >= 23 \/ hour <= 6 THEN 300
         ELSE 500
    ELSE IF venueType = "outdoor"
    THEN IF hour >= 6 /\ hour <= 21 THEN 900
         ELSE IF hour >= 22 \/ hour <= 5 THEN 400
         ELSE 700
    ELSE IF venueType = "cultural"
    THEN IF hour >= 10 /\ hour <= 18 THEN 900
         ELSE IF hour >= 19 \/ hour <= 9 THEN 400
         ELSE 600
    ELSE IF hour >= 8 /\ hour <= 22 THEN 800
         ELSE 500

\* TimeAnalyzer.isWithinEventHours
isWithinEventHours(hour, venueType) ==
    IF venueType \in {"sports_venue", "performance_venue"}
    THEN hour >= 19 /\ hour <= 23
    ELSE IF venueType = "dining" THEN hour >= 11 /\ hour <= 22
    ELSE IF venueType = "outdoor" THEN hour >= 6 /\ hour <= 21
    ELSE IF venueType = "cultural" THEN hour >= 10 /\ hour <= 18
    ELSE hour >= 8 /\ hour <= 22

TimeResult(score, isPlausible, reason, venueType) ==
    [score |-> score, isPlausible |-> isPlausible,
     reason |-> [text |-> reason, venue |-> venueType]]

\* a faulty variant of TimeAnalyzer_analyze: a timestamp equal to the clock
\* counts as lying in the future
TimeAnalyzer_analyze_nowIsFuture(timestamp, location, clock) ==
    IF timestamp = NoTimestamp
    THEN TimeResult(500, TRUE, "No timestamp provided", "")
    ELSE IF timestamp >= clock
    THEN TimeResult(100, FALSE, "Timestamp is in the future", "")
    ELSE IF timestamp < oneYearAgo(clock)
    THEN TimeResult(300, FALSE, "Timestamp is more than 1 year old", "")
    ELSE LET hour == getHours(timestamp)
             venueType == inferVenueType(location)
             timeScore == checkTimePlausibility(hour, venueType)
             isEventHours == isWithinEventHours(hour, venueType)
             score == IF isEventHours THEN 900
                      ELSE IF timeScore > 500 THEN 700
                      ELSE 400
         IN IF isEventHours
            THEN TimeResult(score, score >= 400, "Time is within typical hours", venueType)
            ELSE IF timeScore > 500
            THEN TimeResult(score, score >= 400, "Time is plausible for venue type", "")
            ELSE TimeResult(score, score >= 400,
                            "Time is outside typical hours for venue type", "")

\* TimeAnalyzer.analyze; clock is the value of `new Date()`
TimeAnalyzer_analyze(timestamp, location, clock) ==
    IF timestamp = NoTimestamp
    THEN TimeResult(500, TRUE, "No timestamp provided", "")
    ELSE IF timestamp > clock
    THEN TimeResult(100, FALSE, "Timestamp is in the future", "")
    ELSE IF timestamp < oneYearAgo(clock)
    THEN TimeResult(300, FALSE, "Timestamp is more than 1 year old", "")
    ELSE LET hour == getHours(timestamp)
             venueType == inferVenueType(location)
             timeScore == checkTimePlausibility(hour, venueType)
             isEventHours == isWithinEventHours(hour, venueType)
             score == IF isEventHours THEN 900
                      ELSE IF timeScore > 500 THEN 700
                      ELSE 400
         IN IF isEventHours
            THEN TimeResult(score, score >= 400, "Time is within typical hours", venueType)
            ELSE IF timeScore > 500
            THEN TimeResult(score, score >= 400, "Time is plausible for venue type", "")
            ELSE TimeResult(score, score >= 400,
                            "Time is outside typical hours for venue type", "")

(***************************************************************************)
(* ImageAnalyzer                                                           *)
(*                                                                         *)
(* An image is [kind |-> "none"] (undefined), a File                       *)
(* [kind |-> "file", name, size, type] or a base64 string                  *)
(* [kind |-> "base64", data].  A value that may be undefined is a record   *)
(* with a `defined` flag.                                                  *)
(***************************************************************************)
NoImage == [kind |-> "none"]

Undefined == [defined |-> FALSE, value |-> <<>>]

Defined(v) == [defined |-> TRUE, value |-> v]

DigitChars == <<"0","1","2","3","4","5","6","7","8","9">>

\* String(n) for a natural number n
RECURSIVE numToString(_)
numToString(n) ==
    IF n < 10 THEN <<DigitChars[n + 1]>>
    ELSE numToString(n \div 10) \o <<DigitChars[(n % 10) + 1]>>

\* !image: undefined, or the empty string
imageMissing(image) ==
    \/ image.kind = "none"
    \/ image.kind = "base64" /\ image.data = <<>>

\* ImageAnalyzer.computeImageHash: neither branch of the try block can
\* throw on a File or a string, so the catch branch is not taken
computeImageHash(image) ==
    IF image.kind = "base64"
    THEN Defined(substring(image.data, IMAGE_HASH_PREFIX_LENGTH))
    ELSE IF image.kind = "file"
    THEN Defined(image.name \o <<"_">> \o numToString(image.size) \o <<"_">>
                    \o (IF image.type = <<>>
                        THEN <<"u","n","k","n","o","w","n">>
                        ELSE image.type))
    ELSE Undefined

\* ImageAnalyzer.checkExif
checkExif(image) == FALSE

\* ImageAnalyzer.extractExifLocation
extractExifLocation(image) == [defined |-> FALSE, lat |-> 0, lng |-> 0]

\* !hash: undefined, or the empty string
hashMissing(hash) == ~hash.defined \/ hash.value = <<>>

\* Number.prototype.toFixed(4) of a coordinate given in 1e-5 degrees,
\* rounding half away from zero; a negative value keeps its sign
toFixed4(v) ==
    LET a == IF v < 0 THEN -v ELSE v
        r == (a + 5) \div 10
        frac == r % 10000
        pad == IF frac < 10 THEN <<"0","0","0">>
               ELSE IF frac < 100 THEN <<"0","0">>
               ELSE IF frac < 1000 THEN <<"0">>
               ELSE <<>>
    IN (IF v < 0 THEN <<"-">> ELSE <<>>)
          \o numToString(r \div 10000) \o <<".">> \o pad \o numToString(frac)

\* ImageAnalyzer.getLocationKey
getLocationKey(location) ==
    IF location.type = "poi"
    THEN location.name \o <<"_">> \o location.city
    ELSE toFixed4(location.lat) \o <<"_">> \o toFixed4(location.lng)

\* a faulty variant of checkDuplicate: the negation of the last line is lost,
\* so an image is flagged when it comes back at a location it was seen at
checkDuplicate_sameKey(index, hash, location) ==
    IF hashMissing(hash) THEN FALSE
    ELSE LET locationKey == getLocationKey(location)
             existingLocations == MapGet(index, hash.value, <<>>)
         IN IF Len(existingLocations) = 0 THEN FALSE
            ELSE arrayIncludes(existingLocations, locationKey)

\* ImageAnalyzer.checkDuplicate, reading the index `index`
checkDuplicate(index, hash, location) ==
    IF hashMissing(hash) THEN FALSE
    ELSE LET locationKey == getLocationKey(location)
             existingLocations == MapGet(index, hash.value, <<>>)
         IN IF Len(existingLocations) = 0 THEN FALSE
            ELSE ~arrayIncludes(existingLocations, locationKey)

\* a faulty variant of storeImageHash: the guard on a missing hash is lost
storeImageHash_unguarded(index, hash, location) ==
    LET locationKey == getLocationKey(location)
        existing == MapGet(index, hash.value, <<>>)
    IN IF ~arrayIncludes(existing, locationKey)
       THEN MapSet(index, hash.value, Append(existing, locationKey))
       ELSE index

\* a faulty variant of storeImageHash: the new key replaces the list
storeImageHash_replace(index, hash, location) ==
    IF hashMissing(hash) THEN index
    ELSE LET locationKey == getLocationKey(location)
             existing == MapGet(index, hash.value, <<>>)
         IN IF ~arrayIncludes(existing, locationKey)
            THEN MapSet(index, hash.value, <<locationKey>>)
            ELSE index

\* ImageAnalyzer.storeImageHash: the index after the call
storeImageHash(index, hash, location) ==
    IF hashMissing(hash) THEN index
    ELSE LET locationKey == getLocationKey(location)
             existing == MapGet(index, hash.value, <<>>)
         IN IF ~arrayIncludes(existing, locationKey)
            THEN MapSet(index, hash.value, Append(existing, locationKey))
            ELSE index

\* ImageAnalyzer.calculateDistance, in meters, for two points given in 1e-5
\* degrees on one meridian, where the Haversine formula reduces to
\* R * |lat2 - lat1| in radians: 1e-5 degree of latitude is 1.11195 m
calculateDistance(lat1, lng1, lat2, lng2) ==
    ((IF lat2 > lat1 THEN lat2 - lat1 ELSE lat1 - lat2) * 111195) \div 100000

\* ImageAnalyzer.analyze, lines 57-67: the score of an EXIF position at
\* `distance` meters from the claimed one
distanceScore(distance) ==
    IF distance < IMAGE_EXIF_DISTANCE_CLOSE_M THEN 900
    ELSE IF distance < IMAGE_EXIF_DISTANCE_NEAR_M THEN 700
    ELSE IF distance < IMAGE_EXIF_DISTANCE_ACCEPTABLE_M THEN 500
    ELSE 200

\* ImageAnalyzer.analyze, lines 47-68: the score before the duplicate penalty
exifScore(exifLocation, location) ==
    IF exifLocation.defined /\ location.type = "coordinates"
    THEN distanceScore(calculateDistance(exifLocation.lat, exifLocation.lng,
                                         location.lat, location.lng))
    ELSE 500

\* ImageAnalyzer.analyze: the result, reading the index `index`
ImageAnalyzer_result(index, image, location) ==
    IF imageMissing(image)
    THEN [score |-> 500, hasExif |-> FALSE, exifLocation |-> extractExifLocation(image),
          isDuplicate |-> FALSE, hash |-> Undefined]
    ELSE LET hash == computeImageHash(image)
             isDuplicate == checkDuplicate(index, hash, location)
             hasExif == checkExif(image)
             exifLocation == IF hasExif THEN extractExifLocation(image)
                             ELSE [defined |-> FALSE, lat |-> 0, lng |-> 0]
             score == exifScore(exifLocation, location)
         IN [score |-> IF isDuplicate
                       THEN (score * IMAGE_DUPLICATE_PENALTY) \div ONE
                       ELSE score,
             hasExif |-> hasExif,
             exifLocation |-> exifLocation,
             isDuplicate |-> isDuplicate,
             hash |-> hash]

\* ImageAnalyzer.analyze: the index after the call
ImageAnalyzer_index(index, image, location) ==
    IF imageMissing(image) THEN index
    ELSE storeImageHash(index, computeImageHash(image), location)

(***************************************************************************)
(* SpamAnalyzer                                                            *)
(***************************************************************************)
\* `userId?: string` left out (undefined) or empty: !userId holds
NoUser == ""

\* SpamAnalyzer.hashText
hashText(text) ==
    substring(stripPunctuation(collapseWhitespace(trim(toLowerCase(text)))),
              TEXT_HASH_LENGTH)

\* SpamAnalyzer.checkBurstSubmissions, reading the history map `history`
checkBurstSubmissions(history, userId, timestamp) ==
    IF timestamp = NoTimestamp THEN 0
    ELSE LET records == MapGet(history, userId, <<>>)
             windowStart == timestamp - SPAM_BURST_WINDOW_MIN
             recentCount == Cardinality({i \in 1..Len(records) :
                                            records[i].timestamp > windowStart})
         IN IF recentCount >= SPAM_BURST_HIGH_THRESHOLD THEN 500
            ELSE IF recentCount >= SPAM_BURST_MEDIUM_THRESHOLD THEN 300
            ELSE 0

\* the 5-word phrase length of SpamAnalyzer.detectCopyPaste
PHRASE_LENGTH == 5

\* SpamAnalyzer.detectCopyPaste
detectCopyPaste(text) ==
    LET words == splitWhitespace(toLowerCase(text))
        starts == 0..(Len(words) - PHRASE_LENGTH)
        count(i) == Cardinality({j \in starts :
                        slice(words, j, PHRASE_LENGTH) = slice(words, i, PHRASE_LENGTH)})
        maxRepeat == IF starts = {} THEN 0
                     ELSE CHOOSE m \in {count(i) : i \in starts} :
                            \A i \in starts : count(i) <= m
    IN IF Len(words) < PHRASE_LENGTH * 2 THEN 0
       ELSE IF maxRepeat >= 3 THEN 400
       ELSE IF maxRepeat >= 2 THEN 200
       ELSE 0

\* one entry of `reasons`: the check that triggered and the numbers its
\* message carries
Reason(check, n, limit) == [check |-> check, n |-> n, limit |-> limit]

\* a faulty variant of SpamAnalyzer_result: the sum of the contributions is
\* returned without the cap at 1.0
SpamAnalyzer_result_uncapped(hashes, history, text, userId, timestamp) ==
    LET textHash == hashText(text)
        duplicateCount == MapGet(hashes, textHash, 0)
        hashtagCount == countHashtags(text)
        urlCount == countUrls(text)
        burstRisk == IF userId # NoUser
                     THEN checkBurstSubmissions(history, userId, timestamp)
                     ELSE 0
        copyPasteRisk == detectCopyPaste(text)
        r1 == IF duplicateCount > 0 THEN 400 ELSE 0
        r2 == IF Len(text) < SPAM_SHORT_TEXT_LENGTH THEN 200 ELSE 0
        r3 == IF hashtagCount > SPAM_MAX_HASHTAGS THEN 200 ELSE 0
        r4 == IF urlCount > SPAM_MAX_URLS THEN 300 ELSE 0
        reasons ==
            (IF r1 > 0 THEN <<Reason("Text appears before", duplicateCount, 0)>> ELSE <<>>)
            \o (IF r2 > 0
                THEN <<Reason("Text is very short", Len(text), SPAM_SHORT_TEXT_LENGTH)>>
                ELSE <<>>)
            \o (IF r3 > 0
                THEN <<Reason("Excessive hashtags detected", hashtagCount, SPAM_MAX_HASHTAGS)>>
                ELSE <<>>)
            \o (IF r4 > 0
                THEN <<Reason("Multiple URLs detected", urlCount, SPAM_MAX_URLS)>>
                ELSE <<>>)
            \o (IF burstRisk > 0
                THEN <<Reason("Burst submission pattern detected", 0, 0)>>
                ELSE <<>>)
            \o (IF copyPasteRisk > 0
                THEN <<Reason("Copy-paste pattern detected", 0, 0)>>
                ELSE <<>>)
    IN [risk |-> r1 + r2 + r3 + r4 + burstRisk + copyPasteRisk,
        reasons |-> IF Len(reasons) > 0 THEN reasons
                    ELSE <<Reason("No spam indicators", 0, 0)>>]

\* a faulty variant of SpamAnalyzer_result: the duplicate check asks for more
\* than one earlier occurrence, so a second submission goes unnoticed
SpamAnalyzer_result_dupAfterTwo(hashes, history, text, userId, timestamp) ==
    LET textHash == hashText(text)
        duplicateCount == MapGet(hashes, textHash, 0)
        hashtagCount == countHashtags(text)
        urlCount == countUrls(text)
        burstRisk == IF userId # NoUser
                     THEN checkBurstSubmissions(history, userId, timestamp)
                     ELSE 0
        copyPasteRisk == detectCopyPaste(text)
        r1 == IF duplicateCount > 1 THEN 400 ELSE 0
        r2 == IF Len(text) < SPAM_SHORT_TEXT_LENGTH THEN 200 ELSE 0
        r3 == IF hashtagCount > SPAM_MAX_HASHTAGS THEN 200 ELSE 0
        r4 == IF urlCount > SPAM_MAX_URLS THEN 300 ELSE 0
        reasons ==
            (IF r1 > 0 THEN <<Reason("Text appears before", duplicateCount, 0)>> ELSE <<>>)
            \o (IF r2 > 0
                THEN <<Reason("Text is very short", Len(text), SPAM_SHORT_TEXT_LENGTH)>>
                ELSE <<>>)
            \o (IF r3 > 0
                THEN <<Reason("Excessive hashtags detected", hashtagCount, SPAM_MAX_HASHTAGS)>>
                ELSE <<>>)
            \o (IF r4 > 0
                THEN <<Reason("Multiple URLs detected", urlCount, SPAM_MAX_URLS)>>
                ELSE <<>>)
            \o (IF burstRisk > 0
                THEN <<Reason("Burst submission pattern detected", 0, 0)>>
                ELSE <<>>)
            \o (IF copyPasteRisk > 0
                THEN <<Reason("Copy-paste pattern detected", 0, 0)>>
                ELSE <<>>)
    IN [risk |-> Min(ONE, r1 + r2 + r3 + r4 + burstRisk + copyPasteRisk),
        reasons |-> IF Len(reasons) > 0 THEN reasons
                    ELSE <<Reason("No spam indicators", 0, 0)>>]

\* SpamAnalyzer.analyze, lines 34-84 and 89-92: the result, reading the two
\* maps before the submission is recorded
SpamAnalyzer_result(hashes, history, text, userId, timestamp) ==
    LET textHash == hashText(text)
        duplicateCount == MapGet(hashes, textHash, 0)
        hashtagCount == countHashtags(text)
        urlCount == countUrls(text)
        burstRisk == IF userId # NoUser
                     THEN checkBurstSubmissions(history, userId, timestamp)
                     ELSE 0
        copyPasteRisk == detectCopyPaste(text)
        r1 == IF duplicateCount > 0 THEN 400 ELSE 0
        r2 == IF Len(text) < SPAM_SHORT_TEXT_LENGTH THEN 200 ELSE 0
        r3 == IF hashtagCount > SPAM_MAX_HASHTAGS THEN 200 ELSE 0
        r4 == IF urlCount > SPAM_MAX_URLS THEN 300 ELSE 0
        reasons ==
            (IF r1 > 0 THEN <<Reason("Text appears before", duplicateCount, 0)>> ELSE <<>>)
            \o (IF r2 > 0
                THEN <<Reason("Text is very short", Len(text), SPAM_SHORT_TEXT_LENGTH)>>
                ELSE <<>>)
            \o (IF r3 > 0
                THEN <<Reason("Excessive hashtags detected", hashtagCount, SPAM_MAX_HASHTAGS)>>
                ELSE <<>>)
            \o (IF r4 > 0
                THEN <<Reason("Multiple URLs detected", urlCount, SPAM_MAX_URLS)>>
                ELSE <<>>)
            \o (IF burstRisk > 0
                THEN <<Reason("Burst submission pattern detected", 0, 0)>>
                ELSE <<>>)
            \o (IF copyPasteRisk > 0
                THEN <<Reason("Copy-paste pattern detected", 0, 0)>>
                ELSE <<>>)
    IN [risk |-> Min(ONE, r1 + r2 + r3 + r4 + burstRisk + copyPasteRisk),
        reasons |-> IF Len(reasons) > 0 THEN reasons
                    ELSE <<Reason("No spam indicators", 0, 0)>>]

\* a faulty variant of recordTextHash: the count is kept under the text as
\* submitted, not under its fingerprint
recordTextHash_rawKey(hashes, text) ==
    MapSet(hashes, text, MapGet(hashes, text, 0) + 1)

\* a faulty variant of recordTextHash: the count is set to one, whatever
\* the count read
recordTextHash_setOne(hashes, text) ==
    LET textHash == hashText(text)
    IN MapSet(hashes, textHash, 1)

\* SpamAnalyzer.recordSubmission: textHashes after the call
recordTextHash(hashes, text) ==
    LET textHash == hashText(text)
    IN MapSet(hashes, textHash, MapGet(hashes, textHash, 0) + 1)

\* a faulty variant of recordHistory: beyond the cap the newest entries are
\* dropped, not the oldest
recordHistory_keepOldest(history, text, userId, timestamp) ==
    IF userId # NoUser /\ timestamp # NoTimestamp
    THEN LET pushed == Append(MapGet(history, userId, <<>>),
                              [timestamp |-> timestamp, textHash |-> hashText(text)])
             kept == IF Len(pushed) > MAX_SUBMISSION_HISTORY
                     THEN SubSeq(pushed, 1, MAX_SUBMISSION_HISTORY)
                     ELSE pushed
         IN MapSet(history, userId, kept)
    ELSE history

\* SpamAnalyzer.recordSubmission: submissionHistory after the call
recordHistory(history, text, userId, timestamp) ==
    IF userId # NoUser /\ timestamp # NoTimestamp
    THEN LET pushed == Append(MapGet(history, userId, <<>>),
                              [timestamp |-> timestamp, textHash |-> hashText(text)])
             kept == IF Len(pushed) > MAX_SUBMISSION_HISTORY
                     THEN SubSeq(pushed, Len(pushed) - MAX_SUBMISSION_HISTORY + 1,
                                 Len(pushed))
                     ELSE pushed
         IN MapSet(history, userId, kept)
    ELSE history

(***************************************************************************)
(* ScoringEngine                                                           *)
(*                                                                         *)
(* The weights are in tenths.  baseScore is in 1e-4 (a signal in           *)
(* thousandths times a weight in tenths) and finalScore in 1e-8.  The      *)
(* response carries the score and the signals rounded to four decimals,    *)
(* as whole numbers of 1e-4.                                               *)
(***************************************************************************)
WEIGHTS_TEXT_PLACE == 4

WEIGHTS_IMAGE == 3

WEIGHTS_TIME == 2

WEIGHTS_SPAM_PENALTY == 1

\* one whole in the unit of baseScore (1e-4)
ONE4 == ONE * 10

\* one whole in the unit of finalScore (1e-8)
ONE8 == ONE4 * ONE4

\* a threshold given in thousandths, in the unit of finalScore
Fine(x) == x * (ONE8 \div ONE)

\* a faulty variant of classify: the lower threshold is tested first, so no
\* score is ever classified PASS
classify_lowFirst(score) ==
    IF score >= Fine(LOW_CONFIDENCE_THRESHOLD) THEN "LOW_CONFIDENCE"
    ELSE IF score >= Fine(PASS_THRESHOLD) THEN "PASS"
    ELSE "FLAGGED"

\* a faulty variant of classify: a score of 0.69 is already a PASS
classify_passFrom069(score) ==
    IF score >= Fine(PASS_THRESHOLD) - Fine(10) THEN "PASS"
    ELSE IF score >= Fine(LOW_CONFIDENCE_THRESHOLD) THEN "LOW_CONFIDENCE"
    ELSE "FLAGGED"

\* ScoringEngine.classify
classify(score) ==
    IF score >= Fine(PASS_THRESHOLD) THEN "PASS"
    ELSE IF score >= Fine(LOW_CONFIDENCE_THRESHOLD) THEN "LOW_CONFIDENCE"
    ELSE "FLAGGED"

\* Number(x.toFixed(4)) of a value in 1e-8, rounding half up
toFixed4of8(x) == (x + (ONE4 \div 2)) \div ONE4

\* (score * 100).toFixed(1) of a value in 1e-8: a number of tenths of a percent
toPercent1(x) == (x + (ONE8 \div 2000)) \div (ONE8 \div 1000)

Line(line, n, reasons, reason) ==
    [line |-> line, n |-> n, reasons |-> reasons, reason |-> reason]

NoReason == [text |-> "", venue |-> ""]

\* a faulty variant of generateExplanation: the reasons are joined only above
\* a risk of 0.4
generateExplanation_joinAbove04(score, classification, signals, details) ==
    <<Line("Overall confidence score", toPercent1(score), <<>>, NoReason),
      Line("Classification", 0, <<>>, [text |-> classification, venue |-> ""]),
      IF signals.text_place_match >= 700
      THEN Line("Strong location match in text", Cardinality(details.textMatches),
                <<>>, NoReason)
      ELSE IF signals.text_place_match >= 400
      THEN Line("Moderate location match in text", 0, <<>>, NoReason)
      ELSE Line("Weak or no location match in text", 0, <<>>, NoReason),
      IF signals.image_landmark >= 700
      THEN Line("Strong image evidence", 0, <<>>, NoReason)
      ELSE IF signals.image_landmark >= 400
      THEN Line("Moderate image evidence", 0, <<>>, NoReason)
      ELSE Line("Weak or no image evidence", 0, <<>>, NoReason)>>
    \o (IF details.imageDuplicate
        THEN <<Line("Image appears to be reused from another location", 0, <<>>, NoReason)>>
        ELSE <<>>)
    \o <<Line("Time plausibility", 0, <<>>, details.timeReason),
         IF signals.spam_risk > 400
         THEN Line("Spam indicators detected", 0, details.spamReasons, NoReason)
         ELSE IF signals.spam_risk > 0
         THEN Line("Minor spam indicators", 0, <<details.spamReasons[1]>>, NoReason)
         ELSE Line("No spam indicators detected", 0, <<>>, NoReason)>>

\* ScoringEngine.generateExplanation: the lines that parts.join('\n') joins
generateExplanation(score, classification, signals, details) ==
    <<Line("Overall confidence score", toPercent1(score), <<>>, NoReason),
      Line("Classification", 0, <<>>, [text |-> classification, venue |-> ""]),
      IF signals.text_place_match >= 700
      THEN Line("Strong location match in text", Cardinality(details.textMatches),
                <<>>, NoReason)
      ELSE IF signals.text_place_match >= 400
      THEN Line("Moderate location match in text", 0, <<>>, NoReason)
      ELSE Line("Weak or no location match in text", 0, <<>>, NoReason),
      IF signals.image_landmark >= 700
      THEN Line("Strong image evidence", 0, <<>>, NoReason)
      ELSE IF signals.image_landmark >= 400
      THEN Line("Moderate image evidence", 0, <<>>, NoReason)
      ELSE Line("Weak or no image evidence", 0, <<>>, NoReason)>>
    \o (IF details.imageDuplicate
        THEN <<Line("Image appears to be reused from another location", 0, <<>>, NoReason)>>
        ELSE <<>>)
    \o <<Line("Time plausibility", 0, <<>>, details.timeReason),
         IF signals.spam_risk > 300
         THEN Line("Spam indicators detected", 0, details.spamReasons, NoReason)
         ELSE IF signals.spam_risk > 0
         THEN Line("Minor spam indicators", 0, <<details.spamReasons[1]>>, NoReason)
         ELSE Line("No spam indicators detected", 0, <<>>, NoReason)>>

\* a faulty variant of applySpamPenalty: the penalty is subtracted from the
\* base score instead of scaling it
applySpamPenalty_subtracted(baseScore, spamRisk) ==
    (baseScore - spamRisk * WEIGHTS_SPAM_PENALTY) * ONE4

\* ScoringEngine.validate, line 77: finalScore, in 1e-8
applySpamPenalty(baseScore, spamRisk) ==
    baseScore * (ONE4 - spamRisk * WEIGHTS_SPAM_PENALTY)

\* ScoringEngine.validate, lines 62-111: the response built from the four
\* analyzer results
buildResponse(textResult, imageResult, timeResult, spamResult) ==
    LET signals == [text_place_match |-> textResult.score,
                    image_landmark |-> imageResult.score,
                    time_plausibility |-> timeResult.score,
                    spam_risk |-> spamResult.risk]
        baseScore == textResult.score * WEIGHTS_TEXT_PLACE
                        + imageResult.score * WEIGHTS_IMAGE
                        + timeResult.score * WEIGHTS_TIME
        finalScore == applySpamPenalty(baseScore, spamResult.risk)
        classification == classify(finalScore)
        explanation == generateExplanation(finalScore, classification, signals,
                          [textMatches |-> textResult.matches,
                           imageDuplicate |-> imageResult.isDuplicate,
                           timeReason |-> timeResult.reason,
                           spamReasons |-> spamResult.reasons])
        clampedScore == Max(Fine(SCORE_MIN), Min(Fine(SCORE_MAX), finalScore))
    IN [score |-> toFixed4of8(clampedScore),
        classification |-> classification,
        signals |-> [text_place_match |-> signals.text_place_match * (ONE4 \div ONE),
                     image_landmark |-> signals.image_landmark * (ONE4 \div ONE),
                     time_plausibility |-> signals.time_plausibility * (ONE4 \div ONE),
                     spam_risk |-> signals.spam_risk * (ONE4 \div ONE)],
        explanation |-> explanation]

(***************************************************************************)
(* POST /api/validate and the validators of errorHandler                   *)
(*                                                                         *)
(* A form field is Undefined (formData.get gives null) or Defined(string). *)
(* The timestamp field is a record: its kind says whether the field is     *)
(* absent, blank (empty after trim), a string new Date() cannot parse, or  *)
(* an ISO 8601 string, whose instant `time` is in minutes.  Coordinates    *)
(* are numbers in 1e-5 degrees.                                            *)
(***************************************************************************)
TEXT_MIN_LENGTH == 1

TEXT_MAX_LENGTH == 10000

LATITUDE_MIN == -90

LATITUDE_MAX == 90

LONGITUDE_MIN == -180

LONGITUDE_MAX == 180

\* 10 * 1024 * 1024 bytes
IMAGE_MAX_SIZE_BYTES == 10485760

\* one degree in the unit of the coordinates
DEGREE == 100000

\* the number of fractional digits a coordinate keeps
DEGREE_DIGITS == 5

NoError == [kind |-> "none", code |-> "", statusCode |-> 0]

\* new ValidationError(message, code): statusCode defaults to 400
ValidationError(code) == [kind |-> "ValidationError", code |-> code, statusCode |-> 400]

\* the TypeError of request.formData() on a body that is not form data
BodyError == [kind |-> "Error", code |-> "", statusCode |-> 0]

\* handleValidationError: the code and the status of the error response
handleValidationError(error) ==
    IF error.kind = "ValidationError"
    THEN [code |-> error.code, statusCode |-> error.statusCode]
    ELSE [code |-> "UNKNOWN_ERROR", statusCode |-> 500]

\* a number, or NaN
NaN == [nan |-> TRUE, value |-> 0]

Num(v) == [nan |-> FALSE, value |-> v]

\* the length of the run of digits of s that starts at index i
DigitRun(s, i) ==
    Cardinality({k \in i..Len(s) : \A j \in i..k : s[j] \in Digits})

\* the value of a string of digits
RECURSIVE digitsValue(_)
digitsValue(s) ==
    IF s = <<>> THEN 0
    ELSE digitsValue(SubSeq(s, 1, Len(s) - 1)) * 10
            + (CHOOSE d \in 0..9 : DigitChars[d + 1] = s[Len(s)])

\* parseFloat of a decimal string without exponent: leading white space is
\* skipped, what follows the number is ignored, and a string that does not
\* start with a number gives NaN.  The result keeps DEGREE_DIGITS digits of
\* the fraction.
parseFloat(s) ==
    LET t == trimStart(s)
        signed == Len(t) > 0 /\ t[1] \in {"-", "+"}
        negative == Len(t) > 0 /\ t[1] = "-"
        body == IF signed THEN SubSeq(t, 2, Len(t)) ELSE t
        intLen == DigitRun(body, 1)
        hasDot == Len(body) > intLen /\ body[intLen + 1] = "."
        fracLen == IF hasDot THEN DigitRun(body, intLen + 2) ELSE 0
        kept == Min(fracLen, DEGREE_DIGITS)
        fraction == SubSeq(body, intLen + 2, intLen + 1 + kept)
                        \o [i \in 1..(DEGREE_DIGITS - kept) |-> "0"]
        magnitude == digitsValue(SubSeq(body, 1, intLen)) * DEGREE
                        + digitsValue(fraction)
    IN IF intLen = 0 /\ fracLen = 0 THEN NaN
       ELSE Num(IF negative THEN -magnitude ELSE magnitude)

\* validateCoordinates: the error thrown, or NoError
validateCoordinates(lat, lng) ==
    IF lat.nan \/ lng.nan THEN ValidationError("INVALID_COORDS")
    ELSE IF lat.value < LATITUDE_MIN * DEGREE \/ lat.value > LATITUDE_MAX * DEGREE
    THEN ValidationError("INVALID_LAT")
    ELSE IF lng.value < LONGITUDE_MIN * DEGREE \/ lng.value > LONGITUDE_MAX * DEGREE
    THEN ValidationError("INVALID_LNG")
    ELSE NoError

\* validateText: the error thrown, or NoError
validateText(text) ==
    IF ~text.defined THEN ValidationError("MISSING_TEXT")
    ELSE IF Len(trim(text.value)) < TEXT_MIN_LENGTH THEN ValidationError("MISSING_TEXT")
    ELSE IF Len(text.value) > TEXT_MAX_LENGTH THEN ValidationError("TEXT_TOO_LONG")
    ELSE NoError

\* new Date(timestamp).getTime()
DateParse(timestamp) ==
    IF timestamp.kind = "iso" THEN Num(timestamp.time) ELSE NaN

\* validateTimestamp: the error thrown, or NoError
validateTimestamp(timestamp) ==
    IF timestamp.kind \in {"absent", "blank"}
    THEN ValidationError("INVALID_TIMESTAMP")
    ELSE IF DateParse(timestamp).nan THEN ValidationError("INVALID_TIMESTAMP")
    ELSE NoError

\* validateImageSize: the error thrown, or NoError
validateImageSize(size) ==
    IF size > IMAGE_MAX_SIZE_BYTES THEN ValidationError("IMAGE_TOO_LARGE")
    ELSE NoError

TimestampAbsent == [kind |-> "absent", time |-> 0]

TimestampBlank == [kind |-> "blank", time |-> 0]

TimestampUnparseable == [kind |-> "invalid", time |-> 0]

TimestampIso(t) == [kind |-> "iso", time |-> t]

Form(text, image, locationType, lat, lng, poiName, city, timestamp) ==
    [body |-> TRUE, text |-> text, image |-> image, locationType |-> locationType,
     lat |-> lat, lng |-> lng, poiName |-> poiName, city |-> city,
     timestamp |-> timestamp]

NoForm ==
    Form(Undefined, NoImage, Undefined, Undefined, Undefined, Undefined,
         Undefined, TimestampAbsent)

\* a request body that is not form data
NoFormData == [NoForm EXCEPT !.body = FALSE]

\* POST, lines 46-100: the error thrown while the location is read, or NoError
locationError(form) ==
    IF ~form.locationType.defined THEN ValidationError("INVALID_LOCATION_TYPE")
    ELSE IF form.locationType.value = <<"c","o","o","r","d","i","n","a","t","e","s">>
    THEN IF ~form.lat.defined \/ ~form.lng.defined
         THEN ValidationError("INVALID_COORDS")
         ELSE validateCoordinates(parseFloat(form.lat.value), parseFloat(form.lng.value))
    ELSE IF form.locationType.value = <<"p","o","i">>
    THEN IF ~form.poiName.defined \/ Len(trim(form.poiName.value)) = 0
         THEN ValidationError("MISSING_POI_NAME")
         ELSE IF ~form.city.defined \/ Len(trim(form.city.value)) = 0
         THEN ValidationError("MISSING_CITY")
         ELSE NoError
    ELSE ValidationError("INVALID_LOCATION_TYPE")

\* POST, lines 56-94: the location of a form whose location is valid
formLocation(form) ==
    IF form.locationType.value = <<"p","o","i">>
    THEN [type |-> "poi", name |-> trim(form.poiName.value),
          city |-> trim(form.city.value)]
    ELSE [type |-> "coordinates", lat |-> parseFloat(form.lat.value).value,
          lng |-> parseFloat(form.lng.value).value]

\* a faulty variant of formError: the size of the image is not validated
formError_anyImageSize(form) ==
    IF ~form.body THEN BodyError
    ELSE IF validateText(form.text).kind # "none" THEN validateText(form.text)
    ELSE IF locationError(form).kind # "none" THEN locationError(form)
    ELSE IF form.timestamp.kind \in {"invalid", "iso"}
            /\ validateTimestamp(form.timestamp).kind # "none"
    THEN validateTimestamp(form.timestamp)
    ELSE NoError

\* POST, lines 34-114: the first error thrown before the scoring engine is
\* called, or NoError
formError(form) ==
    IF ~form.body THEN BodyError
    ELSE IF validateText(form.text).kind # "none" THEN validateText(form.text)
    ELSE IF locationError(form).kind # "none" THEN locationError(form)
    ELSE IF form.timestamp.kind \in {"invalid", "iso"}
            /\ validateTimestamp(form.timestamp).kind # "none"
    THEN validateTimestamp(form.timestamp)
    ELSE IF form.image.kind = "file" /\ validateImageSize(form.image.size).kind # "none"
    THEN validateImageSize(form.image.size)
    ELSE NoError

\* POST, lines 116-122: the request handed to the scoring engine; a missing
\* or blank timestamp is replaced by the current time
formRequest(form, clock) ==
    [text |-> trim(form.text.value),
     image |-> IF form.image.kind = "file" THEN form.image ELSE NoImage,
     location |-> formLocation(form),
     timestamp |-> IF form.timestamp.kind \in {"absent", "blank"}
                   THEN clock
                   ELSE DateParse(form.timestamp).value]

(***************************************************************************)
(* Inputs                                                                  *)
(***************************************************************************)
TextScenarioA ==
    <<"A","m","a","z","i","n","g"," ","c","o","n","c","e","r","t"," ","a","t"," ",
      "M","a","d","i","s","o","n"," ","S","q","u","a","r","e"," ",
      "G","a","r","d","e","n","!"," ","#","M","S","G">>

TextGreat == <<"G","r","e","a","t","!">>

\* eleven hashtags (a 5-word phrase repeated seven times) and four URLs
TextSpam ==
    <<"#","a"," ","#","a"," ","#","a"," ","#","a"," ","#","a"," ","#","a"," ",
      "#","a"," ","#","a"," ","#","a"," ","#","a"," ","#","a"," ",
      "h","t","t","p",":","/","/","a"," ","h","t","t","p",":","/","/","b"," ",
      "h","t","t","p","s",":","/","/","c"," ","h","t","t","p",":","/","/","d">>

LocationMSG ==
    [type |-> "poi",
     name |-> <<"M","a","d","i","s","o","n"," ","S","q","u","a","r","e"," ",
                "G","a","r","d","e","n">>,
     city |-> <<"N","e","w"," ","Y","o","r","k">>]

\* (40.7505, -73.9934), in 1e-5 degrees
LocationCoordinates == [type |-> "coordinates", lat |-> 4075050, lng |-> -7399340]

\* a point two meters away, with the same location key
LocationCoordinatesNear == [type |-> "coordinates", lat |-> 4075052, lng |-> -7399340]

\* (34.0522, -118.2437)
LocationCoordinatesFar == [type |-> "coordinates", lat |-> 3405220, lng |-> -11824370]

ImageFileA ==
    [kind |-> "file", name |-> <<"a",".","j","p","g">>, size |-> 2048,
     type |-> <<"i","m","a","g","e","/","j","p","e","g">>]

ImageFileB ==
    [kind |-> "file", name |-> <<"b",".","p","n","g">>, size |-> 512, type |-> <<>>]

\* a value that is neither a string nor a File, for which computeImageHash
\* returns undefined (line 116); the catch branch returns the same
ImageUnhashable == [kind |-> "other"]

\* the clock when the process starts: day 1000, 21:00
StartClock == 1000 * MINUTES_PER_DAY + 21 * MINUTES_PER_HOUR

\* the clock advances by four hours at a time
TickStep == 4 * MINUTES_PER_HOUR

Request(text, image, location, timestamp) ==
    [text |-> text, image |-> image, location |-> location, timestamp |-> timestamp]

(***************************************************************************)
(* Bounds                                                                  *)
(***************************************************************************)
MaxCalls == 2

MaxTicks == 1

MaxFreshCalls == 2

MaxRestarts == 2

MaxBurstCalls == 6

MaxImageCalls == 3

MaxSpamCalls == 6

MaxScenarioBCalls == 1

MaxScenarioCCalls == 3

MaxPosts == 2

MaxSpamTextCalls == 3

MaxSpamRiskCalls == 5

MaxCapCalls == 103

MaxCapOther == 1

MaxCapUnrecorded == 1

MinCopyWords == 5

MaxCopyWords == 10

MaxCopyCalls == 1

MaxTimeCalls == 1

MaxTextCalls == 2

MaxExifCalls == 2

MaxOverlap == 2

MaxExplainCalls == 3

\* the number of validate calls of SpecPass
MaxPassCalls == 2

(***************************************************************************)
(* The state machine                                                       *)
(*                                                                         *)
(* `call` records the last call: the operation, its arguments, the clock   *)
(* at the call and the result.  `hist` holds history variables: what has   *)
(* happened so far in the run, which the program itself does not keep.     *)
(***************************************************************************)
NoResult == [none |-> TRUE]

NoRun == [n |-> 0, lo |-> 0, hi |-> 0]

NoCall ==
    [op |-> "start",
     request |-> Request(<<>>, NoImage, LocationMSG, NoTimestamp),
     userId |-> NoUser,
     clock |-> 0,
     fresh |-> TRUE,
     response |-> NoResult,
     image |-> NoResult,
     spam |-> NoResult,
     burstRisk |-> 0,
     priorKeys |-> {},
     inWindow |-> 0,
     prev |-> Undefined,
     form |-> NoForm,
     error |-> NoError,
     time |-> NoResult,
     text |-> NoResult,
     exif |-> Undefined]

\* the validate calls that may be in flight at a time
Processes == 1..MaxOverlap

\* a validate call that has not begun
Idle ==
    [pc |-> "idle",
     request |-> Request(<<>>, NoImage, LocationMSG, NoTimestamp),
     with |-> {},             \* the calls in flight when this one began
     hash |-> Undefined,
     isDuplicate |-> FALSE,
     image |-> NoResult,
     duplicateCount |-> 0,
     response |-> NoResult]

NoPending == [p \in Processes |-> Idle]

\* the static fields are initialised with `new Map()` when the process starts
Init ==
    /\ imageHashes = EmptyMap
    /\ textHashes = EmptyMap
    /\ submissionHistory = EmptyMap
    /\ now = StartClock
    /\ call = NoCall
    /\ pending = NoPending
    /\ hist = [calls |-> 0,       \* analyzer calls since the process started
               ticks |-> 0,       \* clock steps so far
               posts |-> 0,       \* POST requests handled so far
               texts |-> <<>>,    \* the texts of the SpamAnalyzer.analyze calls
               epoch |-> 0,       \* process restarts so far
               imgSeen |-> {},    \* <<hash, location key>> of every image analyzed
               subLog |-> EmptyMap, \* userId -> timestamps of its recorded submissions
               run |-> NoRun,     \* the current run of validate calls inside one window
               noted |-> Undefined] \* a response noted from a call on a fresh process

\* the location keys under which hash was analyzed before, from the history
PriorKeys(hash) ==
    IF hashMissing(hash) THEN {}
    ELSE {p[2] : p \in {q \in hist.imgSeen : q[1] = hash.value}}

ImgSeenAfter(image, location) ==
    IF imageMissing(image) \/ hashMissing(computeImageHash(image))
    THEN hist.imgSeen
    ELSE hist.imgSeen \cup {<<computeImageHash(image).value, getLocationKey(location)>>}

\* the run of consecutive validate calls whose timestamps all lie less than
\* one burst window apart, after a call with timestamp t
RunAfter(t) ==
    IF t = NoTimestamp THEN NoRun
    ELSE IF hist.run.n > 0
            /\ Max(hist.run.hi, t) - Min(hist.run.lo, t) < SPAM_BURST_WINDOW_MIN
    THEN [n |-> Min(hist.run.n + 1, SPAM_BURST_HIGH_THRESHOLD + 1),
          lo |-> Min(hist.run.lo, t), hi |-> Max(hist.run.hi, t)]
    ELSE [n |-> 1, lo |-> t, hi |-> t]

\* ScoringEngine.validate(request).  The four analyzers run one after the
\* other (lines 53-60), the userId passed to the spam analyzer being
\* undefined; the two stateful ones record the submission.  With `tracked` the
\* history also follows the run of calls inside one burst window and notes
\* the first response given by a fresh process.
ValidateStep(request, tracked) ==
    LET textResult == TextAnalyzer_analyze(request.text, request.location)
        imageResult == ImageAnalyzer_result(imageHashes, request.image, request.location)
        timeResult == TimeAnalyzer_analyze(request.timestamp, request.location, now)
        spamResult == SpamAnalyzer_result(textHashes, submissionHistory, request.text,
                                          NoUser, request.timestamp)
        response == buildResponse(textResult, imageResult, timeResult, spamResult)
    IN /\ imageHashes' = ImageAnalyzer_index(imageHashes, request.image, request.location)
       /\ textHashes' = recordTextHash(textHashes, request.text)
       /\ submissionHistory' = recordHistory(submissionHistory, request.text, NoUser,
                                             request.timestamp)
       /\ now' = now
       /\ pending' = pending
       /\ call' = [NoCall EXCEPT
                     !.op = "validate",
                     !.request = request,
                     !.clock = now,
                     !.fresh = (hist.calls = 0),
                     !.response = response,
                     !.image = imageResult,
                     !.spam = spamResult,
                     !.priorKeys = PriorKeys(imageResult.hash),
                     !.prev = IF call.op = "validate" /\ call.request = request
                                 /\ call.clock = now
                              THEN Defined(call.response)
                              ELSE Undefined]
       /\ hist' = [hist EXCEPT
                     !.calls = @ + 1,
                     !.imgSeen = ImgSeenAfter(request.image, request.location),
                     !.run = IF tracked THEN RunAfter(request.timestamp) ELSE @,
                     !.noted = IF tracked /\ hist.calls = 0 /\ ~hist.noted.defined
                               THEN Defined([request |-> request, clock |-> now,
                                             epoch |-> hist.epoch,
                                             response |-> response])
                               ELSE @]

Validate(request) == ValidateStep(request, FALSE)

ValidateTracked(request) == ValidateStep(request, TRUE)

\* ImageAnalyzer.analyze(image, location), called on its own
ImageAnalyze(image, location) ==
    LET result == ImageAnalyzer_result(imageHashes, image, location)
    IN /\ imageHashes' = ImageAnalyzer_index(imageHashes, image, location)
       /\ UNCHANGED <<textHashes, submissionHistory, now, pending>>
       /\ call' = [NoCall EXCEPT
                     !.op = "image",
                     !.request = Request(<<>>, image, location, NoTimestamp),
                     !.clock = now,
                     !.fresh = (hist.calls = 0),
                     !.image = result,
                     !.priorKeys = PriorKeys(result.hash),
                     !.prev = IF call.op = "image" /\ call.image.hash = result.hash
                                 /\ result.hash.defined
                              THEN Defined([key |-> getLocationKey(call.request.location),
                                            isDuplicate |-> call.image.isDuplicate,
                                            score |-> call.image.score,
                                            priorKeys |-> call.priorKeys])
                              ELSE Undefined]
       /\ hist' = [hist EXCEPT
                     !.calls = @ + 1,
                     !.imgSeen = ImgSeenAfter(image, location)]

\* SpamAnalyzer.analyze, lines 67-74: the burst contribution to the risk
burstContribution(history, userId, timestamp) ==
    IF userId # NoUser THEN checkBurstSubmissions(history, userId, timestamp) ELSE 0

\* the submissions of userId recorded so far whose timestamp lies in the
\* window of SPAM_BURST_WINDOW_MIN minutes that ends at t, from the history
InWindow(userId, t) ==
    LET log == MapGet(hist.subLog, userId, <<>>)
    IN Cardinality({i \in 1..Len(log) :
                       log[i] > t - SPAM_BURST_WINDOW_MIN /\ log[i] <= t})

\* SpamAnalyzer.analyze(text, userId, timestamp), called on its own
SpamAnalyze(text, userId, timestamp) ==
    LET result == SpamAnalyzer_result(textHashes, submissionHistory, text, userId,
                                      timestamp)
    IN /\ textHashes' = recordTextHash(textHashes, text)
       /\ submissionHistory' = recordHistory(submissionHistory, text, userId, timestamp)
       /\ UNCHANGED <<imageHashes, now, pending>>
       /\ call' = [NoCall EXCEPT
                     !.op = "spam",
                     !.request = Request(text, NoImage, LocationMSG, timestamp),
                     !.userId = userId,
                     !.clock = now,
                     !.fresh = (hist.calls = 0),
                     !.spam = result,
                     !.burstRisk = burstContribution(submissionHistory, userId, timestamp),
                     !.inWindow = IF userId # NoUser /\ timestamp # NoTimestamp
                                  THEN InWindow(userId, timestamp) ELSE 0]
       /\ hist' = [hist EXCEPT
                     !.calls = @ + 1,
                     !.texts = Append(@, text),
                     !.subLog = IF userId # NoUser /\ timestamp # NoTimestamp
                                THEN MapSet(@, userId,
                                            Append(MapGet(@, userId, <<>>), timestamp))
                                ELSE @]

\* POST /api/validate with the form data `form`.  A form that a validator
\* rejects is answered with the error response of handleValidationError
\* from the catch block; any other form goes through ScoringEngine.validate
\* and is answered with its result.
Post(form) ==
    LET error == formError(form)
        request == formRequest(form, now)
        textResult == TextAnalyzer_analyze(request.text, request.location)
        imageResult == ImageAnalyzer_result(imageHashes, request.image, request.location)
        timeResult == TimeAnalyzer_analyze(request.timestamp, request.location, now)
        spamResult == SpamAnalyzer_result(textHashes, submissionHistory, request.text,
                                          NoUser, request.timestamp)
        response == buildResponse(textResult, imageResult, timeResult, spamResult)
    IN IF error.kind # "none"
       THEN /\ UNCHANGED <<imageHashes, textHashes, submissionHistory, now, pending>>
            /\ call' = [NoCall EXCEPT
                          !.op = "post",
                          !.form = form,
                          !.clock = now,
                          !.fresh = (hist.calls = 0),
                          !.error = [kind |-> error.kind,
                                     code |-> handleValidationError(error).code,
                                     statusCode |-> handleValidationError(error).statusCode]]
            /\ hist' = [hist EXCEPT !.posts = @ + 1]
       ELSE /\ imageHashes' = ImageAnalyzer_index(imageHashes, request.image,
                                                  request.location)
            /\ textHashes' = recordTextHash(textHashes, request.text)
            /\ submissionHistory' = recordHistory(submissionHistory, request.text,
                                                  NoUser, request.timestamp)
            /\ now' = now
            /\ pending' = pending
            /\ call' = [NoCall EXCEPT
                          !.op = "post",
                          !.form = form,
                          !.request = request,
                          !.clock = now,
                          !.fresh = (hist.calls = 0),
                          !.response = response,
                          !.image = imageResult,
                          !.spam = spamResult,
                          !.priorKeys = PriorKeys(imageResult.hash)]
            /\ hist' = [hist EXCEPT
                          !.calls = @ + 1,
                          !.posts = @ + 1,
                          !.imgSeen = ImgSeenAfter(request.image, request.location)]

\* TimeAnalyzer.analyze(timestamp, location), called on its own
TimeAnalyze(timestamp, location) ==
    /\ UNCHANGED <<imageHashes, textHashes, submissionHistory, now, pending>>
    /\ call' = [NoCall EXCEPT
                  !.op = "time",
                  !.request = Request(<<>>, NoImage, location, timestamp),
                  !.clock = now,
                  !.fresh = (hist.calls = 0),
                  !.time = TimeAnalyzer_analyze(timestamp, location, now)]
    /\ hist' = [hist EXCEPT !.calls = @ + 1]

\* TextAnalyzer.analyze(text, location), called on its own
TextAnalyze(text, location) ==
    /\ UNCHANGED <<imageHashes, textHashes, submissionHistory, now, pending>>
    /\ call' = [NoCall EXCEPT
                  !.op = "text",
                  !.request = Request(text, NoImage, location, NoTimestamp),
                  !.clock = now,
                  !.fresh = (hist.calls = 0),
                  !.text = TextAnalyzer_analyze(text, location)]
    /\ hist' = [hist EXCEPT !.calls = @ + 1]

\* ImageAnalyzer.analyze, lines 47-68, for an image of which the EXIF step
\* has delivered `exif`: no position (Undefined), or a position whose
\* great-circle distance from the claimed coordinates is exif.value meters
ExifScore(exif, location) ==
    /\ UNCHANGED <<imageHashes, textHashes, submissionHistory, now, pending>>
    /\ call' = [NoCall EXCEPT
                  !.op = "exif",
                  !.request = Request(<<>>, ImageFileA, location, NoTimestamp),
                  !.clock = now,
                  !.fresh = (hist.calls = 0),
                  !.exif = exif,
                  !.image = [score |-> IF exif.defined /\ location.type = "coordinates"
                                       THEN distanceScore(exif.value)
                                       ELSE 500]]
    /\ hist' = [hist EXCEPT !.calls = @ + 1]

(***************************************************************************)
(* ScoringEngine.validate as an async function.  A call runs without       *)
(* interruption up to its next `await` and is resumed later; in between,   *)
(* other calls run.  The awaits of a call: `await computeImageHash`        *)
(* (part_004:40), `await checkExif` (part_004:42) and `await               *)
(* ImageAnalyzer.analyze` (scoringEngine.ts:54); extractExifLocation is    *)
(* not awaited, because hasExif is false.                                  *)
(***************************************************************************)
InFlight == {p \in Processes : pending[p].pc \notin {"idle", "done"}}

\* validate from its start to the first await: TextAnalyzer.analyze (pure,
\* used in ValidateFinish), then ImageAnalyzer.analyze, which returns at once
\* without an image and else computes the hash and awaits it
ValidateBegin(p, request) ==
    /\ pending[p].pc = "idle"
    /\ pending' = [pending EXCEPT ![p] =
          IF imageMissing(request.image)
          THEN [Idle EXCEPT
                  !.pc = "imaged",
                  !.request = request,
                  !.with = InFlight,
                  !.image = ImageAnalyzer_result(imageHashes, request.image,
                                                 request.location)]
          ELSE [Idle EXCEPT
                  !.pc = "hashed",
                  !.request = request,
                  !.with = InFlight,
                  !.hash = computeImageHash(request.image)]]
    /\ UNCHANGED <<imageHashes, textHashes, submissionHistory, now, call, hist>>

\* ImageAnalyzer.analyze, lines 41-42: checkDuplicate reads the index, then
\* the call awaits checkExif
ValidateCheck(p) ==
    /\ pending[p].pc = "hashed"
    /\ pending' = [pending EXCEPT
          ![p].pc = "checked",
          ![p].isDuplicate = checkDuplicate(imageHashes, pending[p].hash,
                                            pending[p].request.location)]
    /\ UNCHANGED <<imageHashes, textHashes, submissionHistory, now, call, hist>>

\* ImageAnalyzer.analyze, lines 43-87: the score, the duplicate penalty, the
\* record step storeImageHash and the result
ValidateStore(p) ==
    LET request == pending[p].request
        hasExif == checkExif(request.image)
        exifLocation == IF hasExif THEN extractExifLocation(request.image)
                        ELSE [defined |-> FALSE, lat |-> 0, lng |-> 0]
        score == exifScore(exifLocation, request.location)
    IN /\ pending[p].pc = "checked"
       /\ imageHashes' = storeImageHash(imageHashes, pending[p].hash, request.location)
       /\ pending' = [pending EXCEPT
             ![p].pc = "imaged",
             ![p].image = [score |-> IF pending[p].isDuplicate
                                     THEN (score * IMAGE_DUPLICATE_PENALTY) \div ONE
                                     ELSE score,
                           hasExif |-> hasExif,
                           exifLocation |-> exifLocation,
                           isDuplicate |-> pending[p].isDuplicate,
                           hash |-> pending[p].hash]]
       /\ UNCHANGED <<textHashes, submissionHistory, now, call, hist>>

\* validate after the image result has arrived (scoringEngine.ts:55-111):
\* TimeAnalyzer.analyze, SpamAnalyzer.analyze, which reads the text index
\* and records the submission without an await in between, and the response
ValidateFinish(p) ==
    LET request == pending[p].request
        textResult == TextAnalyzer_analyze(request.text, request.location)
        imageResult == pending[p].image
        timeResult == TimeAnalyzer_analyze(request.timestamp, request.location, now)
        spamResult == SpamAnalyzer_result(textHashes, submissionHistory, request.text,
                                          NoUser, request.timestamp)
        response == buildResponse(textResult, imageResult, timeResult, spamResult)
    IN /\ pending[p].pc = "imaged"
       /\ textHashes' = recordTextHash(textHashes, request.text)
       /\ submissionHistory' = recordHistory(submissionHistory, request.text, NoUser,
                                             request.timestamp)
       /\ pending' = [pending EXCEPT
             ![p].pc = "done",
             ![p].duplicateCount = MapGet(textHashes, hashText(request.text), 0),
             ![p].response = response]
       /\ call' = [NoCall EXCEPT
                     !.op = "validate",
                     !.request = request,
                     !.clock = now,
                     !.fresh = (hist.calls = 0),
                     !.response = response,
                     !.image = imageResult,
                     !.spam = spamResult]
       /\ hist' = [hist EXCEPT
                     !.calls = @ + 1,
                     !.imgSeen = ImgSeenAfter(request.image, request.location)]
       /\ UNCHANGED <<imageHashes, now>>

\* time passes
Tick ==
    /\ hist.ticks < MaxTicks
    /\ now' = now + TickStep
    /\ hist' = [hist EXCEPT !.ticks = @ + 1]
    /\ UNCHANGED <<imageHashes, textHashes, submissionHistory, call, pending>>

\* a faulty variant of Restart: the text index survives the restart
Restart_keepTextHashes ==
    /\ hist.epoch < MaxRestarts
    /\ imageHashes' = EmptyMap
    /\ submissionHistory' = EmptyMap
    /\ call' = [NoCall EXCEPT !.op = "restart"]
    /\ hist' = [hist EXCEPT !.calls = 0, !.epoch = @ + 1, !.imgSeen = {},
                            !.subLog = EmptyMap, !.run = NoRun]
    /\ pending' = NoPending
    /\ UNCHANGED <<textHashes, now>>

\* the process is restarted: the static fields are initialised again
Restart ==
    /\ hist.epoch < MaxRestarts
    /\ imageHashes' = EmptyMap
    /\ textHashes' = EmptyMap
    /\ submissionHistory' = EmptyMap
    /\ call' = [NoCall EXCEPT !.op = "restart"]
    /\ hist' = [hist EXCEPT !.calls = 0, !.epoch = @ + 1, !.imgSeen = {},
                            !.subLog = EmptyMap, !.run = NoRun]
    /\ pending' = NoPending
    /\ UNCHANGED now

(***************************************************************************)
(* Specifications                                                          *)
(***************************************************************************)
Texts == {TextScenarioA, TextGreat, TextSpam}

Locations == {LocationMSG, LocationCoordinates}

Images == {NoImage, ImageFileA}

\* no timestamp, 20:30 on the day the process started, and an hour ahead of
\* the clock
Timestamps(clock) == {NoTimestamp, StartClock - 30, clock + MINUTES_PER_HOUR}

ValidateAny ==
    /\ hist.calls < MaxCalls
    /\ \E text \in Texts, image \in Images, location \in Locations,
          timestamp \in Timestamps(now) :
            Validate(Request(text, image, location, timestamp))

Next == ValidateAny \/ Tick

Spec == Init /\ [][Next]_vars

(***************************************************************************)
(* Properties of ScoringEngine.validate, under Spec                        *)
(*                                                                         *)
(* The numbers in the properties are the ones the documentation states,    *)
(* in the unit of the response (1e-4): 0.70 is 7000.                       *)
(***************************************************************************)
InUnit(x) == x >= 0 /\ x <= 10000

\* C1: after any sequence of validate calls, the score of the response and
\* each of its four signals lie in [0, 1].
C1_ScoreAndSignalsInRange ==
    call.op = "validate" =>
        /\ InUnit(call.response.score)
        /\ InUnit(call.response.signals.text_place_match)
        /\ InUnit(call.response.signals.image_landmark)
        /\ InUnit(call.response.signals.time_plausibility)
        /\ InUnit(call.response.signals.spam_risk)

\* a response whose text signal is 1: the contributions of the matches add
\* up to 1.15 and the clamp applies
C1_Witness ==
    /\ call.op = "validate"
    /\ call.request.text = TextScenarioA
    /\ call.request.location = LocationMSG
    /\ call.response.signals.text_place_match = 10000

\* C2: the classification of every response is the band of the returned
\* (rounded) score: PASS iff score >= 0.70, LOW_CONFIDENCE iff
\* 0.40 <= score < 0.70, FLAGGED iff score < 0.40.
C2_ClassificationMatchesScore ==
    call.op = "validate" =>
        LET r == call.response
        IN /\ r.classification \in {"PASS", "LOW_CONFIDENCE", "FLAGGED"}
           /\ (r.classification = "PASS") <=> (r.score >= 7000)
           /\ (r.classification = "LOW_CONFIDENCE") <=>
                  (r.score >= 4000 /\ r.score < 7000)
           /\ (r.classification = "FLAGGED") <=> (r.score < 4000)

\* a response that a spam penalty has brought close to the PASS threshold
\* (0.73 * 0.96 = 0.7008) and that is still classified PASS
C2_Witness ==
    /\ call.op = "validate"
    /\ call.response.signals.spam_risk > 0
    /\ call.response.score < 7100
    /\ call.response.classification = "PASS"

\* the score of C3 from the signals of the response, which are whole
\* thousandths carried in 1e-4: base in 1e-4, the product in 1e-8, rounded
\* to 1e-4
C3_Base(r) ==
    (r.signals.text_place_match \div 10) * 4
        + (r.signals.image_landmark \div 10) * 3
        + (r.signals.time_plausibility \div 10) * 2

C3_Expected(r) ==
    LET final == C3_Base(r) * (10000 - (r.signals.spam_risk \div 10))
        clamped == IF final < 0 THEN 0
                   ELSE IF final > 100000000 THEN 100000000 ELSE final
    IN (clamped + 5000) \div 10000

\* C3: the returned score is (text * 0.4 + image * 0.3 + time * 0.2) *
\* (1 - spam * 0.1), clamped to [0, 1] and rounded to 4 decimals; so spam
\* never raises the score and lowers it by at most a tenth of the base.
C3_ScoreFormula ==
    call.op = "validate" =>
        LET r == call.response
        IN /\ r.score = C3_Expected(r)
           /\ r.score <= C3_Base(r)
           /\ 10 * r.score >= 9 * C3_Base(r)

\* a response whose score the maximal spam risk has lowered
C3_Witness ==
    /\ call.op = "validate"
    /\ call.response.signals.spam_risk = 10000
    /\ call.response.score > 0
    /\ call.response.score < C3_Base(call.response)

\* C5: two validate calls with an identical request and the same clock,
\* made one after the other, return identical responses.
C5_SameRequestSameResponse ==
    (call.op = "validate" /\ call.prev.defined) => call.response = call.prev.value

FreshRequests ==
    {Request(text, ImageFileA, place[1], place[2]) :
        text \in {TextScenarioA, TextGreat},
        place \in {<<LocationMSG, StartClock - 30>>,
                   <<LocationCoordinates, StartClock + MINUTES_PER_HOUR>>}}

ValidateFresh ==
    /\ hist.calls < MaxFreshCalls
    /\ \E request \in FreshRequests : ValidateTracked(request)

NextFresh == ValidateFresh \/ Restart \/ Tick

SpecFresh == Init /\ [][NextFresh]_vars

\* the call is the first one of a process, with the request and at the clock
\* of the response noted earlier
C4_AgainOnFreshState ==
    /\ call.op = "validate"
    /\ call.fresh
    /\ hist.noted.defined
    /\ hist.noted.value.request = call.request
    /\ hist.noted.value.clock = call.clock

ImageInputs == {NoImage, ImageFileA, ImageFileB, ImageUnhashable}

ImageLocations ==
    {LocationMSG, LocationCoordinates, LocationCoordinatesNear, LocationCoordinatesFar}

ImageAnalyzeAny ==
    /\ hist.calls < MaxImageCalls
    /\ \E image \in ImageInputs, location \in ImageLocations :
          ImageAnalyze(image, location)

NextImage == ImageAnalyzeAny

SpecImage == Init /\ [][NextImage]_vars

\* the score the submission of the last call gets as a first submission
FirstSubmissionScore ==
    ImageAnalyzer_result(EmptyMap, call.request.image, call.request.location).score

\* the last two calls carried the same fingerprint, which was unknown
\* before them, at two different location keys
C6_SecondAtOtherKey ==
    /\ call.op = "image"
    /\ call.prev.defined
    /\ call.prev.value.priorKeys = {}
    /\ call.prev.value.key # getLocationKey(call.request.location)

\* C6: when fingerprint f is unknown, analyze with f at key A is not a
\* duplicate, and a following analyze with f at another key B is one, with
\* 0.3 times the score it would get as a first submission.
C6_DuplicateImageLaw ==
    C6_SecondAtOtherKey =>
        /\ ~call.prev.value.isDuplicate
        /\ call.image.isDuplicate
        /\ 10 * call.image.score = 3 * FirstSubmissionScore

\* the second of two such calls has returned the penalised score 0.15
C6_Witness ==
    /\ C6_SecondAtOtherKey
    /\ call.image.isDuplicate
    /\ call.image.score = 150

\* C7: a submission with fingerprint f at key K is flagged (and penalised
\* by 0.3) exactly when f was recorded before under a key other than K.
C7_FlaggedIffSeenElsewhere ==
    (call.op = "image" /\ call.image.hash.defined) =>
        LET K == getLocationKey(call.request.location)
            elsewhere == \E k \in call.priorKeys : k # K
        IN /\ call.image.isDuplicate <=> elsewhere
           /\ 10 * call.image.score =
                 (IF elsewhere THEN 3 ELSE 10) * FirstSubmissionScore

\* C24: an analyze call for which no fingerprint is available (no image, or
\* an image that computeImageHash cannot hash) returns a result that is not
\* a duplicate and has the score 0.5, and leaves the image index as it was.
C24_NoFingerprint ==
    [][(call'.op = "image" /\ hist'.calls = hist.calls + 1
          /\ ~call'.image.hash.defined) =>
            /\ ~call'.image.isDuplicate
            /\ call'.image.score = 500
            /\ imageHashes' = imageHashes]_vars

\* an image that cannot be hashed has been analyzed when the index held a
\* fingerprint already, and got the score 0.5
C24_Witness ==
    /\ call.op = "image"
    /\ call.request.image = ImageUnhashable
    /\ ~call.image.hash.defined
    /\ call.image.score = 500
    /\ imageHashes # EmptyMap

(***************************************************************************)
(* SpamAnalyzer.analyze on its own, under SpecSpam                         *)
(***************************************************************************)
SpamUsers == {"u1", "u2"}

\* two timestamps two minutes apart and one ten minutes later
SpamTimestamps == {StartClock - 30, StartClock - 28, StartClock - 18}

SpamAnalyzeAny ==
    /\ hist.calls < MaxSpamCalls
    /\ \E userId \in SpamUsers, timestamp \in SpamTimestamps :
          SpamAnalyze(TextScenarioA, userId, timestamp)

NextSpam == SpamAnalyzeAny

SpecSpam == Init /\ [][NextSpam]_vars

\* C8: with a submitter and a timestamp t, the burst contribution is 0.5
\* when the submitter has 5 or more recorded submissions in the 5-minute
\* window ending at t, 0.3 when it has 3 or 4, and 0 when it has fewer; so
\* the risk is at least 0.5 in the first case.
C8_BurstContribution ==
    (call.op = "spam" /\ call.userId # NoUser /\ call.request.timestamp # NoTimestamp) =>
        /\ call.inWindow >= 5 => (call.burstRisk = 500 /\ call.spam.risk >= 500)
        /\ call.inWindow \in {3, 4} => call.burstRisk = 300
        /\ call.inWindow < 3 => call.burstRisk = 0

\* C18: the burst check counts only the submitter's recorded submissions
\* whose timestamp lies in the 5-minute window that ends at the timestamp of
\* the current submission; submissions stamped later than the current one
\* and those older than the window do not count, so a call with fewer than 3
\* (5) submissions in the window gets no (no high) burst risk.
C18_BurstCountsTrailingWindow ==
    (call.op = "spam" /\ call.userId # NoUser /\ call.request.timestamp # NoTimestamp) =>
        /\ call.inWindow < SPAM_BURST_MEDIUM_THRESHOLD => call.burstRisk = 0
        /\ call.inWindow < SPAM_BURST_HIGH_THRESHOLD => call.burstRisk < 500

(***************************************************************************)
(* Bursts through ScoringEngine.validate, under SpecBurst                  *)
(***************************************************************************)
BurstRequests ==
    {Request(text, NoImage, LocationMSG, timestamp) :
        text \in {TextScenarioA, TextGreat},
        timestamp \in {StartClock - 30, StartClock - 28}}

ValidateBurst ==
    /\ hist.calls < MaxBurstCalls
    /\ \E request \in BurstRequests : ValidateTracked(request)

NextBurst == ValidateBurst

SpecBurst == Init /\ [][NextBurst]_vars

\* the reasons on the spam line of the explanation
SpamLineReasons(explanation) == explanation[Len(explanation)].reasons

\* C9: when 5 or more requests with timestamps inside one 5-minute window
\* have gone through validate, the next request of the burst gets a
\* spam_risk of at least 0.5 and the reason 'Burst submission pattern
\* detected'.
C9_BurstDetectedByValidate ==
    (call.op = "validate" /\ hist.run.n > 5) =>
        /\ call.response.signals.spam_risk >= 5000
        /\ \E i \in 1..Len(SpamLineReasons(call.response.explanation)) :
              SpamLineReasons(call.response.explanation)[i].check
                  = "Burst submission pattern detected"

(***************************************************************************)
(* Scenario B through ScoringEngine.validate, under SpecScenarioB          *)
(***************************************************************************)
TextHavingFun == <<"H","a","v","i","n","g"," ","f","u","n","!">>

\* how many days before the day the process started a timestamp lies: the
\* same day, the day before, and days on both sides of one year
ScenarioBDaysBack == {0, 1, 364, 365, 366, 400}

\* every full hour of those days that is not after the clock, and the clock
PastTimestamps(clock) ==
    {t \in {StartClock - 21 * MINUTES_PER_HOUR - d * MINUTES_PER_DAY
                + h * MINUTES_PER_HOUR :
                d \in ScenarioBDaysBack, h \in 0..(HOURS_PER_DAY - 1)} : t <= clock}
        \cup {clock}

ValidateScenarioB ==
    /\ hist.calls < MaxScenarioBCalls
    /\ \E timestamp \in PastTimestamps(now) :
          Validate(Request(TextHavingFun, NoImage, LocationCoordinates, timestamp))

NextScenarioB == ValidateScenarioB \/ Tick

SpecScenarioB == Init /\ [][NextScenarioB]_vars

\* the last call validated Scenario B on a fresh process with a timestamp
\* that is not in the future
C11_IsScenarioB ==
    /\ call.op = "validate"
    /\ call.fresh
    /\ call.request.text = TextHavingFun
    /\ call.request.location.type = "coordinates"
    /\ call.request.image = NoImage
    /\ call.request.timestamp # NoTimestamp
    /\ call.request.timestamp <= call.clock

\* C11: on a fresh process, Scenario B (text "Having fun!", a location given
\* by coordinates only, no image, a timestamp that is not in the future) is
\* classified FLAGGED with a score below 0.40, at every hour of the day and
\* at every age of the timestamp.
C11_ScenarioB ==
    C11_IsScenarioB =>
        /\ call.response.classification = "FLAGGED"
        /\ call.response.score < 4000

\* Scenario B has been validated with a timestamp inside the general hours,
\* the case with the highest time signal, and scored 0.37
C11_Witness ==
    /\ C11_IsScenarioB
    /\ call.response.signals.time_plausibility = 9000
    /\ call.response.signals.image_landmark = 5000
    /\ call.response.score = 3700

(***************************************************************************)
(* Scenario C through ScoringEngine.validate, under SpecScenarioC          *)
(***************************************************************************)
TextGreatPlace == <<"G","r","e","a","t"," ","p","l","a","c","e","!">>

ScenarioCRequests ==
    {Request(text, image, location, timestamp) :
        text \in {TextGreatPlace, TextGreat},
        image \in {NoImage, ImageFileA},
        location \in {LocationMSG, LocationCoordinates},
        timestamp \in {NoTimestamp, StartClock - 30}}

ValidateScenarioC ==
    /\ hist.calls < MaxScenarioCCalls
    /\ \E request \in ScenarioCRequests : Validate(request)

NextScenarioC == ValidateScenarioC

SpecScenarioC == Init /\ [][NextScenarioC]_vars

\* the last call submitted "Great place!" for the second time: the index now
\* counts two occurrences of its fingerprint
C12_SecondGreatPlace ==
    /\ call.op = "validate"
    /\ call.request.text = TextGreatPlace
    /\ MapGet(textHashes, hashText(TextGreatPlace), 0) = 2

\* the score that lies `percent` percent below the base score of response r
C12_Lowered(r, percent) == (C3_Base(r) * (100 - percent) * 100 + 5000) \div 10000

\* C12 as stated: the second submission of "Great place!" gets the spam risk
\* 0.6 (0.4 duplicate + 0.2 short text) and a score 6% below the one it
\* would have with no spam risk.
C12_ScenarioC_AsStated ==
    C12_SecondGreatPlace =>
        /\ call.spam.risk = 600
        /\ call.response.score = C12_Lowered(call.response, 6)

\* C12, amended: "Great place!" has 12 characters, which is not below
\* SPAM_SHORT_TEXT_LENGTH, so its second submission gets the spam risk 0.4,
\* the duplicate-text reason alone, and a score 4% below the one it would
\* have with no spam risk.
C12_ScenarioC ==
    C12_SecondGreatPlace =>
        /\ Len(call.request.text) >= SPAM_SHORT_TEXT_LENGTH
        /\ call.spam.risk = 400
        /\ call.spam.reasons = <<Reason("Text appears before", 1, 0)>>
        /\ call.response.score = C12_Lowered(call.response, 4)

\* "Great place!" has been submitted a second time and the penalty has
\* lowered its score
C12_Witness ==
    /\ C12_SecondGreatPlace
    /\ call.spam.risk = 400
    /\ call.response.score < C3_Base(call.response)

(***************************************************************************)
(* POST /api/validate, under SpecPost                                      *)
(***************************************************************************)
FieldCoordinates == Defined(<<"c","o","o","r","d","i","n","a","t","e","s">>)

FieldPoi == Defined(<<"p","o","i">>)

\* Scenario B as form data
FormCoordinates ==
    Form(Defined(TextHavingFun), NoImage, FieldCoordinates,
         Defined(<<"4","0",".","7","5","0","5">>),
         Defined(<<"-","7","3",".","9","9","3","4">>),
         Undefined, Undefined, TimestampIso(StartClock - 30))

\* Scenario A as form data, with blanks around the text and the POI name
FormPoi ==
    Form(Defined(<<" ">> \o TextScenarioA \o <<" ">>), NoImage, FieldPoi,
         Undefined, Undefined,
         Defined(<<" ">> \o LocationMSG.name), Defined(LocationMSG.city),
         TimestampIso(StartClock - 30))

\* an image one byte above IMAGE_MAX_SIZE_BYTES
ImageFileHuge == [ImageFileA EXCEPT !.size = IMAGE_MAX_SIZE_BYTES + 1]

\* a text one character above TEXT_MAX_LENGTH
TextTooLong == [i \in 1..(TEXT_MAX_LENGTH + 1) |-> "a"]

\* forms that pass the validators
GoodForms ==
    {FormCoordinates, FormPoi,
     [FormCoordinates EXCEPT !.timestamp = TimestampAbsent],
     [FormPoi EXCEPT !.timestamp = TimestampAbsent],
     [FormPoi EXCEPT !.timestamp = TimestampBlank],
     [FormCoordinates EXCEPT !.image = ImageFileA],
     [FormCoordinates EXCEPT !.lat = Defined(<<"9","0">>),
                             !.lng = Defined(<<"-","1","8","0">>)]}

\* forms that a validator rejects
BadForms ==
    {NoFormData,
     [FormPoi EXCEPT !.text = Undefined],
     [FormPoi EXCEPT !.text = Defined(<<" "," ">>)],
     [FormPoi EXCEPT !.text = Defined(TextTooLong)],
     [FormPoi EXCEPT !.locationType = Undefined],
     [FormPoi EXCEPT !.locationType = Defined(<<"c","i","t","y">>)],
     [FormPoi EXCEPT !.poiName = Undefined],
     [FormPoi EXCEPT !.poiName = Defined(<<" ">>)],
     [FormPoi EXCEPT !.city = Undefined],
     [FormPoi EXCEPT !.city = Defined(<<>>)],
     [FormPoi EXCEPT !.timestamp = TimestampUnparseable],
     [FormPoi EXCEPT !.image = ImageFileHuge],
     [FormCoordinates EXCEPT !.lat = Undefined],
     [FormCoordinates EXCEPT !.lng = Undefined],
     [FormCoordinates EXCEPT !.lat = Defined(<<"a","b","c">>)],
     [FormCoordinates EXCEPT !.lat = Defined(<<"2","0","0">>)],
     [FormCoordinates EXCEPT !.lat = Defined(<<"-","9","0",".","0","0","0","0","1">>)],
     [FormCoordinates EXCEPT !.lng = Defined(<<"1","8","0",".","5">>)],
     [FormCoordinates EXCEPT !.image = ImageFileHuge]}

PostAny ==
    /\ hist.posts < MaxPosts
    /\ \E form \in GoodForms \cup BadForms : Post(form)

NextPost == PostAny \/ Tick

SpecPost == Init /\ [][NextPost]_vars

\* C13: a POST without a timestamp field that reaches the scoring engine is
\* scored with the neutral time_plausibility 0.5, at every location and
\* every time of day.
C13_NoTimestampIsNeutral ==
    (call.op = "post" /\ call.form.timestamp.kind = "absent"
        /\ call.error.kind = "none") =>
        call.response.signals.time_plausibility = 5000

\* the form fails the boundary validation: text missing, empty or too long,
\* location type invalid, coordinates missing, not numbers or out of range,
\* POI name or city missing, timestamp unparseable, or image oversized
C14_Malformed(form) ==
    /\ form.body
    /\ \/ ~form.text.defined
       \/ trim(form.text.value) = <<>>
       \/ Len(form.text.value) > 10000
       \/ ~form.locationType.defined
       \/ form.locationType \notin {FieldCoordinates, FieldPoi}
       \/ /\ form.locationType = FieldCoordinates
          /\ \/ ~form.lat.defined
             \/ ~form.lng.defined
             \/ parseFloat(form.lat.value).nan
             \/ parseFloat(form.lng.value).nan
             \/ parseFloat(form.lat.value).value \notin (-90 * DEGREE)..(90 * DEGREE)
             \/ parseFloat(form.lng.value).value \notin (-180 * DEGREE)..(180 * DEGREE)
       \/ /\ form.locationType = FieldPoi
          /\ \/ ~form.poiName.defined
             \/ trim(form.poiName.value) = <<>>
             \/ ~form.city.defined
             \/ trim(form.city.value) = <<>>
       \/ form.timestamp.kind = "invalid"
       \/ form.image.kind = "file" /\ form.image.size > 10 * 1024 * 1024

\* C14: a POST whose form fails the boundary validation is answered with an
\* error response and does not reach the scoring engine: the image index,
\* the text index and the submission history are left as they were.
C14_RejectedBeforeEngine ==
    [][(hist'.posts = hist.posts + 1 /\ C14_Malformed(call'.form)) =>
          /\ call'.error.kind = "ValidationError"
          /\ call'.error.statusCode = 400
          /\ call'.response = NoResult
          /\ UNCHANGED <<imageHashes, textHashes, submissionHistory>>]_vars

\* a form with an oversized image has been rejected by a process whose
\* indices already hold an earlier submission
C14_Witness ==
    /\ call.op = "post"
    /\ C14_Malformed(call.form)
    /\ call.form.image = ImageFileHuge
    /\ call.error.code = "IMAGE_TOO_LARGE"
    /\ textHashes # EmptyMap
    /\ imageHashes # EmptyMap

(***************************************************************************)
(* The text index of SpamAnalyzer, under SpecSpamText                      *)
(***************************************************************************)
\* "Great place!" in another spelling, with the same fingerprint
TextGreatPlaceLoud ==
    <<" ","G","R","E","A","T"," "," ","p","l","a","c","e","!","!">>

SpamTexts == {TextGreat, TextGreatPlace, TextGreatPlaceLoud, TextSpam}

SpamTextAnalyzeAny ==
    /\ hist.calls < MaxSpamTextCalls
    /\ \E text \in SpamTexts, userId \in {NoUser, "u1"},
          timestamp \in {NoTimestamp, StartClock - 30} :
            SpamAnalyze(text, userId, timestamp)

NextSpamText == SpamTextAnalyzeAny

SpecSpamText == Init /\ [][NextSpamText]_vars

\* the number of analyze calls, among the first n, whose text has the
\* fingerprint h
CallsWith(h, n) == Cardinality({i \in 1..n : hashText(hist.texts[i]) = h})

\* the risk the last call gets from the checks other than the duplicate-text
\* check
C15_OtherRisk ==
    SpamAnalyzer_result(EmptyMap, EmptyMap, call.request.text, NoUser,
                        call.request.timestamp).risk + call.burstRisk

\* C15: the count stored for a fingerprint is the number of analyze calls
\* made so far with that fingerprint, and a call adds the duplicate-text risk
\* 0.4 and reports 'Text appears N time(s) before' exactly when N, the number
\* of earlier calls with its fingerprint, is above 0.
C15_TextIndexCountsCalls ==
    call.op = "spam" =>
        LET h == hashText(call.request.text)
            N == CallsWith(h, Len(hist.texts) - 1)
            first == call.spam.reasons[1]
        IN /\ DOMAIN textHashes = {hashText(hist.texts[i]) : i \in 1..Len(hist.texts)}
           /\ \A k \in DOMAIN textHashes : textHashes[k] = CallsWith(k, Len(hist.texts))
           /\ (N > 0) <=> (first.check = "Text appears before")
           /\ (N > 0) => first.n = N
           /\ \A i \in 2..Len(call.spam.reasons) :
                 call.spam.reasons[i].check # "Text appears before"
           /\ call.spam.risk = Min(ONE, (IF N > 0 THEN 400 ELSE 0) + C15_OtherRisk)

\* the third call with the fingerprint of "Great place!", each in another
\* spelling or with another submitter, reports two earlier occurrences
C15_Witness ==
    /\ call.op = "spam"
    /\ call.request.text = TextGreatPlaceLoud
    /\ call.spam.reasons[1] = Reason("Text appears before", 2, 0)
    /\ call.spam.risk = 400
    /\ textHashes[hashText(TextGreatPlace)] = 3

(***************************************************************************)
(* The risk of SpamAnalyzer.analyze, under SpecSpamRisk                    *)
(***************************************************************************)
\* ten words in which one 5-word phrase occurs twice
TextTwice ==
    <<"a"," ","b"," ","c"," ","d"," ","e"," ","a"," ","b"," ","c"," ","d"," ","e">>

\* a short text, a text that triggers three checks, a text with a phrase
\* said twice and a text that triggers nothing
SpamRiskTexts == {TextGreat, TextSpam, TextTwice, TextScenarioA}

SpamRiskAnalyzeAny ==
    /\ hist.calls < MaxSpamRiskCalls
    /\ \/ \E text \in SpamRiskTexts : SpamAnalyze(text, "u1", StartClock - 30)
       \/ SpamAnalyze(TextGreat, NoUser, NoTimestamp)

NextSpamRisk == SpamRiskAnalyzeAny

SpecSpamRisk == Init /\ [][NextSpamRisk]_vars

\* the contributions of the six checks to the risk of the last call, in the
\* order of the checks, with the reason each one gives
C16_Contributions ==
    LET text == call.request.text
        N == CallsWith(hashText(text), Len(hist.texts) - 1)
    IN <<[risk |-> IF N > 0 THEN 400 ELSE 0, check |-> "Text appears before"],
         [risk |-> IF Len(text) < 10 THEN 200 ELSE 0, check |-> "Text is very short"],
         [risk |-> IF countHashtags(text) > 10 THEN 200 ELSE 0,
          check |-> "Excessive hashtags detected"],
         [risk |-> IF countUrls(text) > 3 THEN 300 ELSE 0,
          check |-> "Multiple URLs detected"],
         [risk |-> call.burstRisk, check |-> "Burst submission pattern detected"],
         [risk |-> detectCopyPaste(text), check |-> "Copy-paste pattern detected"]>>

\* C16: the risk is min(1.0, the sum of the contributions of the checks that
\* triggered), burst contributing 0.5 or 0.3 and copy-paste 0.4 or 0.2; the
\* reasons hold one entry per triggered check, and are the single entry
\* 'No spam indicators' exactly when the risk is 0.
C16_RiskIsCappedSum ==
    call.op = "spam" =>
        LET c == C16_Contributions
            triggered == SelectSeq(c, LAMBDA x : x.risk > 0)
            sum == c[1].risk + c[2].risk + c[3].risk + c[4].risk + c[5].risk + c[6].risk
        IN /\ c[5].risk \in {0, 300, 500}
           /\ c[6].risk \in {0, 200, 400}
           /\ call.spam.risk = Min(1000, sum)
           /\ sum > 0 =>
                 [i \in 1..Len(call.spam.reasons) |-> call.spam.reasons[i].check]
                    = [i \in 1..Len(triggered) |-> triggered[i].check]
           /\ (call.spam.reasons = <<Reason("No spam indicators", 0, 0)>>)
                 <=> (call.spam.risk = 0)

\* a call whose contributions (duplicate, hashtags, URLs, burst and
\* copy-paste) add up to more than 1.0 has been given the risk 1.0
C16_Witness ==
    /\ call.op = "spam"
    /\ call.request.text = TextSpam
    /\ call.burstRisk = 300
    /\ Len(call.spam.reasons) = 5
    /\ call.spam.risk = 1000

(***************************************************************************)
(* The cap of the submission history, under SpecCap                        *)
(*                                                                         *)
(* One submitter sends a long series of submissions, each stamped a minute *)
(* after the one before; a second submitter and calls that lack the        *)
(* submitter or the timestamp come in between.                             *)
(***************************************************************************)
\* the recorded submissions of userId so far, from the history
Recorded(userId) == MapGet(hist.subLog, userId, <<>>)

\* the calls so far that recorded no submission
Unrecorded == hist.calls - Len(Recorded("u1")) - Len(Recorded("u2"))

SpamCapAnalyze ==
    /\ hist.calls < MaxCapCalls
    /\ \/ SpamAnalyze(TextGreat, "u1", StartClock + Len(Recorded("u1")))
       \/ /\ Len(Recorded("u2")) < MaxCapOther
          /\ SpamAnalyze(TextGreat, "u2", StartClock)
       \/ /\ Unrecorded < MaxCapUnrecorded
          /\ \/ SpamAnalyze(TextGreat, NoUser, StartClock)
             \/ SpamAnalyze(TextGreat, "u1", NoTimestamp)

NextCap == SpamCapAnalyze

SpecCap == Init /\ [][NextCap]_vars

\* C17: every submitter's history holds at most 100 entries and is always
\* the most recent (up to 100) recorded submissions of that submitter in
\* recording order, the oldest being the ones dropped; a call that lacks the
\* submitter id or the timestamp leaves every history unchanged.
C17_HistoryIsCappedTail ==
    /\ [](\A u \in DOMAIN submissionHistory \cup DOMAIN hist.subLog :
            LET history == MapGet(submissionHistory, u, <<>>)
                log == Recorded(u)
            IN /\ Len(history) <= 100
               /\ Len(history) = Min(Len(log), 100)
               /\ \A i \in 1..Len(history) :
                     history[i].timestamp = log[Len(log) - Len(history) + i])
    /\ [][(/\ hist'.calls = hist.calls + 1
           /\ call'.op = "spam"
           /\ call'.userId = NoUser \/ call'.request.timestamp = NoTimestamp)
          => UNCHANGED submissionHistory]_vars

\* the submitter has recorded 102 submissions and the history holds the last
\* 100 of them: the first two have been dropped
C17_Witness ==
    /\ Len(Recorded("u1")) = 102
    /\ Len(submissionHistory["u1"]) = 100
    /\ submissionHistory["u1"][1].timestamp = StartClock + 2
    /\ submissionHistory["u1"][100].timestamp = StartClock + 101

(***************************************************************************)
(* The copy-paste check of SpamAnalyzer, under SpecCopyPaste               *)
(***************************************************************************)
\* the text of n one-letter words w[1] .. w[n], a blank between two words
JoinWords(w) ==
    [i \in 1..(2 * Len(w) - 1) |-> IF i % 2 = 1 THEN w[(i + 1) \div 2] ELSE " "]

\* every text of MinCopyWords to MaxCopyWords words, each "a" or "b"
CopyPasteTexts ==
    UNION {{JoinWords(w) : w \in [1..n -> {"a", "b"}]} : n \in MinCopyWords..MaxCopyWords}

CopyPasteAnalyze ==
    /\ hist.calls < MaxCopyCalls
    /\ \E text \in CopyPasteTexts : SpamAnalyze(text, NoUser, NoTimestamp)

NextCopyPaste == CopyPasteAnalyze

SpecCopyPaste == Init /\ [][NextCopyPaste]_vars

\* how often the most repeated shingle of 5 consecutive words occurs in text
MaxShingleRepeat(text) ==
    LET words == splitWhitespace(toLowerCase(text))
        starts == 1..(Len(words) - 4)
        shingle(i) == SubSeq(words, i, i + 4)
        times(i) == Cardinality({j \in starts : shingle(j) = shingle(i)})
    IN IF starts = {} THEN 0
       ELSE CHOOSE m \in {times(i) : i \in starts} : \A i \in starts : times(i) <= m

\* C19: for a text of any number of words, the copy-paste check adds 0.4
\* when some 5-word shingle occurs at least 3 times, 0.2 when the most
\* repeated shingle occurs exactly twice, and nothing otherwise.
C19_CopyPasteByShingles ==
    call.op = "spam" =>
        LET repeat == MaxShingleRepeat(call.request.text)
            expected == IF repeat >= 3 THEN 400 ELSE IF repeat = 2 THEN 200 ELSE 0
        IN /\ detectCopyPaste(call.request.text) = expected
           /\ (expected > 0) <=>
                 \E i \in 1..Len(call.spam.reasons) :
                    call.spam.reasons[i].check = "Copy-paste pattern detected"

(***************************************************************************)
(* TimeAnalyzer.analyze on its own, under SpecTime                         *)
(***************************************************************************)
LocationStadium ==
    [type |-> "poi",
     name |-> <<"Y","a","n","k","e","e"," ","S","t","a","d","i","u","m">>,
     city |-> <<"N","e","w"," ","Y","o","r","k">>]

LocationHall ==
    [type |-> "poi",
     name |-> <<"C","a","r","n","e","g","i","e"," ","H","a","l","l">>,
     city |-> <<"N","e","w"," ","Y","o","r","k">>]

LocationCafe ==
    [type |-> "poi",
     name |-> <<"C","a","f","e"," ","R","e","g","g","i","o">>,
     city |-> <<"N","e","w"," ","Y","o","r","k">>]

LocationPark ==
    [type |-> "poi",
     name |-> <<"C","e","n","t","r","a","l"," ","P","a","r","k">>,
     city |-> <<"N","e","w"," ","Y","o","r","k">>]

LocationMuseum ==
    [type |-> "poi",
     name |-> <<"C","i","t","y"," ","M","u","s","e","u","m">>,
     city |-> <<"N","e","w"," ","Y","o","r","k">>]

\* a POI of every venue type, and a location given by coordinates
TimeLocations ==
    {LocationMSG, LocationStadium, LocationHall, LocationCafe, LocationPark,
     LocationMuseum, LocationCoordinates}

\* timestamps ahead of the clock: by a minute, an hour, 23 hours and a year
FutureTimestamps(clock) ==
    {clock + 1, clock + MINUTES_PER_HOUR, clock + 23 * MINUTES_PER_HOUR,
     clock + DAYS_PER_YEAR * MINUTES_PER_DAY}

\* every full hour of the day the process started and of the days on both
\* sides of one year before it that is not after the clock, and the clock
TimePastTimestamps(clock) ==
    {t \in {StartClock - 21 * MINUTES_PER_HOUR - d * MINUTES_PER_DAY
                + h * MINUTES_PER_HOUR :
                d \in {0, DAYS_PER_YEAR - 1, DAYS_PER_YEAR, DAYS_PER_YEAR + 1},
                h \in 0..(HOURS_PER_DAY - 1)} : t <= clock}
        \cup {clock}

TimeAnalyzeAny ==
    /\ hist.calls < MaxTimeCalls
    /\ \E location \in TimeLocations,
          timestamp \in {NoTimestamp} \cup TimePastTimestamps(now)
                            \cup FutureTimestamps(now) :
            TimeAnalyze(timestamp, location)

NextTime == TimeAnalyzeAny \/ Tick

SpecTime == Init /\ [][NextTime]_vars

\* C20: a timestamp strictly after the clock gets the score 0.1 and is not
\* plausible, whatever the venue hours say about its hour; a timestamp equal
\* to the clock is not treated as future.
C20_FutureTimestamp ==
    (call.op = "time" /\ call.request.timestamp # NoTimestamp) =>
        /\ call.request.timestamp > call.clock =>
              /\ call.time.score = 100
              /\ ~call.time.isPlausible
              /\ call.time.reason.text = "Timestamp is in the future"
        /\ call.request.timestamp = call.clock =>
              /\ call.time.score # 100
              /\ call.time.isPlausible
              /\ call.time.reason.text # "Timestamp is in the future"

\* a timestamp one minute ahead of the clock, at an hour inside the event
\* hours of the stadium, has been given the score 0.1
C20_Witness ==
    /\ call.op = "time"
    /\ call.request.location = LocationStadium
    /\ call.request.timestamp = call.clock + 1
    /\ isWithinEventHours(getHours(call.request.timestamp),
                          inferVenueType(call.request.location))
    /\ call.time.score = 100

\* C21: a timestamp that is not in the future gets the score 0.3 and is not
\* plausible exactly when it lies more than one year (365 days) before the
\* clock, be it only by hours.
C21_OlderThanOneYear ==
    (/\ call.op = "time"
     /\ call.request.timestamp # NoTimestamp
     /\ call.request.timestamp <= call.clock) =>
        ((call.time.score = 300 /\ ~call.time.isPlausible)
            <=> call.request.timestamp
                   < call.clock - DAYS_PER_YEAR * MINUTES_PER_DAY)

\* the last call analyzed a timestamp that is neither after the clock nor
\* more than one year (365 days) before it
C22_InRange ==
    /\ call.op = "time"
    /\ call.request.timestamp # NoTimestamp
    /\ call.request.timestamp <= call.clock
    /\ call.request.timestamp >= call.clock - DAYS_PER_YEAR * MINUTES_PER_DAY

\* the event hours of the venue types as the specification lists them
C22_EventHours(venueType, hour) ==
    IF venueType \in {"sports_venue", "performance_venue"} THEN hour \in 19..23
    ELSE IF venueType = "dining" THEN hour \in 11..22
    ELSE IF venueType = "outdoor" THEN hour \in 6..21
    ELSE IF venueType = "cultural" THEN hour \in 10..18
    ELSE hour \in 8..22

\* the secondary bands named in the claim
C22_SecondaryAsStated(venueType, hour) ==
    \/ venueType = "sports_venue" /\ hour \in 12..18
    \/ venueType = "dining" /\ hour \in 7..10

\* the secondary bands with a plausibility above 0.5: those of the claim and
\* the matinee hours of a performance venue
C22_Secondary(venueType, hour) ==
    \/ C22_SecondaryAsStated(venueType, hour)
    \/ venueType = "performance_venue" /\ hour \in 14..18

C22_VenueType ==
    IF call.request.location.type = "coordinates" THEN "general"
    ELSE inferVenueType(call.request.location)

C22_Score(secondary) ==
    IF C22_EventHours(C22_VenueType, getHours(call.request.timestamp)) THEN 900
    ELSE IF secondary THEN 700
    ELSE 400

\* C22 as stated: for a timestamp in range the score is 0.9 inside the event
\* hours of the venue type, else 0.7 inside the secondary bands sports 12-18
\* and dining 7-10, else 0.4, and the timestamp is plausible.
C22_VenueHours_AsStated ==
    C22_InRange =>
        /\ call.time.score
              = C22_Score(C22_SecondaryAsStated(C22_VenueType,
                                                getHours(call.request.timestamp)))
        /\ call.time.isPlausible

\* C22: for a timestamp in range the score is 0.9 inside the event hours of
\* the venue type, else 0.7 inside the secondary bands sports 12-18,
\* performance 14-18 and dining 7-10, else 0.4, and the timestamp is
\* plausible; a location given by coordinates has the general hours.
C22_VenueHours ==
    C22_InRange =>
        /\ call.time.score
              = C22_Score(C22_Secondary(C22_VenueType,
                                        getHours(call.request.timestamp)))
        /\ call.time.score \in {900, 700, 400}
        /\ call.time.isPlausible

\* a performance venue has been given 0.7 for a timestamp at 15:00
C22_Witness ==
    /\ C22_InRange
    /\ C22_VenueType = "performance_venue"
    /\ getHours(call.request.timestamp) = 15
    /\ call.time.score = 700

(***************************************************************************)
(* TextAnalyzer.analyze on its own, under SpecText                         *)
(***************************************************************************)
TextChicago ==
    <<"L","o","v","e","l","y"," ","e","v","e","n","i","n","g"," ","i","n"," ",
      "C","h","i","c","a","g","o">>

TextNYC == <<"N","Y","C"," ","r","o","c","k","s">>

TextNewYorkNYC ==
    <<"N","e","w"," ","Y","o","r","k",","," ","N","Y","C">>

TextSunset == <<"S","u","n","s","e","t","!">>

\* texts with one city token ("chicago", "nyc"; "la" inside "place"), with
\* two, and without any
TextInputs ==
    {TextChicago, TextNYC, TextNewYorkNYC, TextGreatPlace, TextHavingFun,
     TextSunset, TextScenarioA}

TextLocations ==
    {LocationCoordinates, LocationCoordinatesNear, LocationCoordinatesFar, LocationMSG}

TextAnalyzeAny ==
    /\ hist.calls < MaxTextCalls
    /\ \E text \in TextInputs, location \in TextLocations :
          TextAnalyze(text, location)

NextText == TextAnalyzeAny \/ Tick

SpecText == Init /\ [][NextText]_vars

\* the text of the last call contains one of the well-known city tokens
C23_HasCityToken ==
    \E k \in cityKeywords : includes(toLowerCase(call.request.text), k)

\* C23: for a location given by coordinates the text score is never zero: a
\* text with a city token scores the city-mention contribution times the
\* coordinates penalty factor, a text without one the floor score.
C23_CoordinatesCityMention ==
    (call.op = "text" /\ call.request.location.type = "coordinates") =>
        /\ call.text.score > 0
        /\ call.text.score =
              IF C23_HasCityToken
              THEN (TEXT_CITY_MENTION_SCORE * TEXT_COORDINATES_PENALTY) \div ONE
              ELSE TEXT_NO_MATCHES_SCORE

(***************************************************************************)
(* The distance bands of ImageAnalyzer.analyze, under SpecExif             *)
(***************************************************************************)
\* distances in meters: inside every band, and at and around the limits
ExifDistances ==
    {0, 1, 50, 99, 100, 101, 500, 999, 1000, 1001, 2500, 4999, 5000, 5001, 20000}

ExifScoreAny ==
    /\ hist.calls < MaxExifCalls
    /\ \E exif \in {Undefined} \cup {Defined(d) : d \in ExifDistances},
          location \in {LocationCoordinates, LocationCoordinatesFar, LocationMSG} :
            ExifScore(exif, location)

NextExif == ExifScoreAny \/ Tick

SpecExif == Init /\ [][NextExif]_vars

C26_KeysKept(a, b) ==
    \A h \in DOMAIN a :
        /\ h \in DOMAIN b
        /\ Len(a[h]) <= Len(b[h])
        /\ \A i \in 1..Len(a[h]) : b[h][i] = a[h][i]

\* every text fingerprint of index a is in index b with a count not below
C26_CountsKept(a, b) ==
    \A h \in DOMAIN a : h \in DOMAIN b /\ b[h] >= a[h]

\* the fingerprint of the image of request r is recorded in index a under
\* the location key of r
C26_Recorded(a, r) ==
    LET hash == computeImageHash(r.image)
    IN /\ ~imageMissing(r.image)
       /\ hash.defined
       /\ hash.value \in DOMAIN a
       /\ \E i \in 1..Len(a[hash.value]) :
              a[hash.value][i] = getLocationKey(r.location)

\* C26: no step removes a fingerprint or a location key from the image index
\* or lowers a count of the text index; a validate call whose fingerprint is
\* recorded under its location key already leaves the image index as it is;
\* and no location key occurs twice under one fingerprint.
C26_IndicesMonotone ==
    /\ [](\A h \in DOMAIN imageHashes :
            \A i, j \in 1..Len(imageHashes[h]) :
                imageHashes[h][i] = imageHashes[h][j] => i = j)
    /\ [][/\ C26_KeysKept(imageHashes, imageHashes')
          /\ C26_CountsKept(textHashes, textHashes')
          /\ (call'.op = "validate" /\ hist'.calls = hist.calls + 1
                 /\ C26_Recorded(imageHashes, call'.request))
                => imageHashes' = imageHashes]_vars

\* one image has been recorded at two locations and one text counted twice
C26_Witness ==
    /\ call.op = "validate"
    /\ \E h \in DOMAIN imageHashes : Len(imageHashes[h]) = 2
    /\ \E h \in DOMAIN textHashes : textHashes[h] = 2

\* an image has been validated twice at one location
C26_WitnessSameKey ==
    /\ call.op = "validate"
    /\ hist.calls = 2
    /\ C26_Recorded(imageHashes, call.request)
    /\ Len(imageHashes[computeImageHash(call.request.image).value]) = 1

(***************************************************************************)
(* Overlapping ScoringEngine.validate calls, under SpecOverlap             *)
(***************************************************************************)
\* one text with one image at two locations and without image, and another
\* text without image
OverlapRequests ==
    {Request(TextGreat, ImageFileA, LocationMSG, StartClock - 30),
     Request(TextGreat, ImageFileA, LocationCoordinates, StartClock - 30),
     Request(TextGreat, NoImage, LocationMSG, StartClock - 30),
     Request(TextHavingFun, NoImage, LocationMSG, StartClock - 30)}

ValidateBeginAny ==
    \E p \in Processes, request \in OverlapRequests : ValidateBegin(p, request)

ValidateCheckAny == \E p \in Processes : ValidateCheck(p)

ValidateStoreAny == \E p \in Processes : ValidateStore(p)

ValidateFinishAny == \E p \in Processes : ValidateFinish(p)

NextOverlap ==
    ValidateBeginAny \/ ValidateCheckAny \/ ValidateStoreAny \/ ValidateFinishAny

SpecOverlap == Init /\ [][NextOverlap]_vars

\* calls p and q overlapped: one began while the other was in flight
Overlapping(p, q) == q \in pending[p].with \/ p \in pending[q].with

C28_Done(h) ==
    {p \in Processes : pending[p].pc = "done"
                          /\ hashText(pending[p].request.text) = h}

\* C28: at any time, for every text fingerprint, the n calls with it that
\* have passed their spam step have observed the prior counts 0..n-1, each
\* once (so one of them observed 0), and the stored count is n.
C28_SpamStepAtomic ==
    \A h \in {hashText(r.text) : r \in OverlapRequests} :
        LET n == Cardinality(C28_Done(h))
        IN /\ {pending[p].duplicateCount : p \in C28_Done(h)} = 0..(n - 1)
           /\ \A p, q \in C28_Done(h) :
                 pending[p].duplicateCount = pending[q].duplicateCount => p = q
           /\ MapGet(textHashes, h, 0) = n

\* every call has returned, all carried one text, and every two overlapped
C28_Witness ==
    /\ \A p \in Processes : pending[p].pc = "done"
    /\ \A p, q \in Processes :
          /\ pending[p].request.text = pending[q].request.text
          /\ p # q => Overlapping(p, q)
    /\ \E p \in Processes : pending[p].duplicateCount = MaxOverlap - 1

(***************************************************************************)
(* The spam line of the explanation, under SpecExplain                     *)
(***************************************************************************)
\* four URLs and nothing else
TextUrls ==
    <<"h","t","t","p",":","/","/","a"," ","h","t","t","p",":","/","/","b",
      " ","h","t","t","p","s",":","/","/","c"," ","h","t","t","p",":","/",
      "/","d">>

\* eleven different hashtags and nothing else
TextHashtags ==
    <<"#","a"," ","#","b"," ","#","c"," ","#","d"," ","#","e"," ","#","f",
      " ","#","g"," ","#","h"," ","#","i"," ","#","j"," ","#","k">>

\* texts that trigger no check, one check each (short text, hashtags, URLs,
\* copy-paste) and three checks at once; a repeated text triggers the
\* duplicate check in addition
ExplainTexts ==
    {TextScenarioA, TextGreat, TextHashtags, TextUrls, TextTwice, TextSpam}

ValidateExplain ==
    /\ hist.calls < MaxExplainCalls
    /\ \E text \in ExplainTexts :
          Validate(Request(text, NoImage, LocationMSG, StartClock - 30))

NextExplain == ValidateExplain

SpecExplain == Init /\ [][NextExplain]_vars

\* the spam line of the explanation of the last call
C29_SpamLine == call.response.explanation[Len(call.response.explanation)]

\* C29: the spam line of the explanation is the all-clear line exactly when
\* the spam risk is 0, carries all reasons of the spam analyzer when the
\* risk is above 0.3, and carries its first reason when the risk is in
\* (0, 0.3], where that reason is the only one.
C29_SpamLineShowsEveryReason ==
    call.op = "validate" =>
        /\ (C29_SpamLine.line = "No spam indicators detected") <=> (call.spam.risk = 0)
        /\ call.spam.risk > 300 =>
              /\ C29_SpamLine.line = "Spam indicators detected"
              /\ C29_SpamLine.reasons = call.spam.reasons
        /\ (call.spam.risk > 0 /\ call.spam.risk <= 300) =>
              /\ C29_SpamLine.line = "Minor spam indicators"
              /\ Len(call.spam.reasons) = 1
              /\ C29_SpamLine.reasons = call.spam.reasons

\* a text whose only indicator is its URLs has got the risk 0.3 and the
\* line of the minor indicators with that reason
C29_Witness ==
    /\ call.op = "validate"
    /\ call.request.text = TextUrls
    /\ call.spam.risk = 300
    /\ C29_SpamLine.line = "Minor spam indicators"
    /\ C29_SpamLine.reasons = <<Reason("Multiple URLs detected", 4, 3)>>

(***************************************************************************)
(* What a PASS takes.  ImageAnalyzer.checkExif reports no EXIF data, so    *)
(* the image signal stays at the neutral score or the duplicate score.     *)
(* SpecPass validates requests whose texts score 0.1, 0.85, 0.9, 0.95 and  *)
(* 1.0 against the venue, at event hours, in the secondary band and off    *)
(* hours, each with the same image file.                                   *)
(***************************************************************************)
TextMSGName ==
    <<"M","a","d","i","s","o","n"," ","S","q","u","a","r","e"," ","G","a","r","d","e","n">>

\* scores 0.9 at Madison Square Garden: three words, a nickname, the city
\* and two entities
TextNinety ==
    <<"s","q","u","a","r","e"," ","m","a","d","i","s","o","n"," ","\"","g","a","r","d","e","n",
      "\""," ","m","s","g"," ","n","e","w"," ","y","o","r","k">>

\* scores 0.95 at Madison Square Garden: one entity more
TextNinetyFive ==
    <<"s","q","u","a","r","e"," ","\"","m","a","d","i","s","o","n","\""," ","\"","g","a","r",
      "d","e","n","\""," ","m","s","g"," ","n","e","w"," ","y","o","r","k">>

TextYankee ==
    <<"Y","a","n","k","e","e"," ","S","t","a","d","i","u","m"," ","t","o","n","i","g","h","t">>

PassTexts == {TextScenarioA, TextMSGName, TextNinety, TextNinetyFive, TextYankee}

PassLocations == {LocationMSG, LocationStadium}

\* 20:30, 15:00 and 03:00 of the day of StartClock
PassTimestamps ==
    {StartClock - 30, StartClock - 6 * MINUTES_PER_HOUR,
     StartClock - 18 * MINUTES_PER_HOUR}

ValidatePass ==
    /\ hist.calls < MaxPassCalls
    /\ \E text \in PassTexts, location \in PassLocations,
          timestamp \in PassTimestamps :
          Validate(Request(text, ImageFileA, location, timestamp))

NextPass == ValidatePass

SpecPass == Init /\ [][NextPass]_vars

\* C30: the image_landmark signal of a response is 0.5 or 0.15, its score is
\* at most 0.73, and it is classified PASS only when its text_place_match
\* signal is above 0.9 and its time_plausibility signal is 0.9.
C30_PassNeedsTextAndTime ==
    call.op = "validate" =>
        /\ call.response.signals.image_landmark \in {5000, 1500}
        /\ call.response.score <= 7300
        /\ call.response.classification = "PASS" =>
              /\ call.response.signals.text_place_match > 9000
              /\ call.response.signals.time_plausibility = 9000

\* a repeated image at another venue: image_landmark 0.15, and the text that
\* scores 1.0 at event hours is no longer a PASS
C30_Witness ==
    /\ call.op = "validate"
    /\ call.request = Request(TextYankee, ImageFileA, LocationStadium, StartClock - 30)
    /\ call.response.signals.image_landmark = 1500
    /\ call.response.signals.text_place_match = 10000
    /\ call.response.signals.time_plausibility = 9000
    /\ call.response.classification # "PASS"

\* the text that scores 0.95 at event hours is a PASS
C30_WitnessPass ==
    /\ call.op = "validate"
    /\ call.request = Request(TextNinetyFive, ImageFileA, LocationMSG, StartClock - 30)
    /\ call.response.signals.text_place_match = 9500
    /\ call.response.classification = "PASS"

\* the text that scores 0.9 at event hours is not a PASS
C30_WitnessNinety ==
    /\ call.op = "validate"
    /\ call.request = Request(TextNinety, ImageFileA, LocationMSG, StartClock - 30)
    /\ call.response.signals.text_place_match = 9000
    /\ call.response.signals.image_landmark = 5000
    /\ call.response.classification = "LOW_CONFIDENCE"

\* the text that scores 1.0 in the secondary band is not a PASS
C30_WitnessSecondary ==
    /\ call.op = "validate"
    /\ call.request = Request(TextYankee, ImageFileA, LocationStadium,
                              StartClock - 6 * MINUTES_PER_HOUR)
    /\ call.response.signals.text_place_match = 10000
    /\ call.response.signals.time_plausibility = 7000
    /\ call.response.classification = "LOW_CONFIDENCE"

====
